---- MODULE Spec2Model ----
(***************************************************************************)
(* A model of the descriptor engine of src/src/descriptors.ts: evaluate,   *)
(* expand, the Output class and its use of a PSBT.                         *)
(*                                                                         *)
(* A descriptor string is a sequence of lexemes (TLA+ strings); a lexeme   *)
(* is a character ("*", "/", "#", a digit, a checksum character) or a      *)
(* fixed piece of text the grammar never splits ("wpkh(", an xpub).        *)
(* An optional value of the TypeScript code (x?: T) is <<>> when           *)
(* undefined and <<v>> when set.                                           *)
(***************************************************************************)
EXTENDS Integers, Sequences, FiniteSets, TLC

None == <<>>
Some(v) == <<v>>
IsSome(o) == o # <<>>
Val(o) == o[1]

\* ------------------------------------------------------------------ lexemes

Digits == <<"0", "1", "2", "3", "4", "5", "6", "7", "8", "9">>
DigitSet == {Digits[i] : i \in 1..Len(Digits)}

RECURSIVE DigitValue(_, _)
DigitValue(c, i) == IF Digits[i] = c THEN i - 1 ELSE DigitValue(c, i + 1)

\* Number.prototype.toString of a non-negative integer: its decimal digits.
RECURSIVE NumberToString(_)
NumberToString(n) ==
  IF n < 10 THEN <<Digits[n + 1]>>
  ELSE NumberToString(n \div 10) \o <<Digits[(n % 10) + 1]>>

\* parseInt of a non-empty run of digits.
RECURSIVE ParseInt(_)
ParseInt(ds) ==
  IF Len(ds) = 1 THEN DigitValue(ds[1], 1)
  ELSE 10 * ParseInt(SubSeq(ds, 1, Len(ds) - 1)) + DigitValue(ds[Len(ds)], 1)

\* The checksum character set (a part of CHECKSUM_CHARSET of checksum.ts,
\* "qpzry9x8gf2tvdw0s3jn54khce6mua7l": it holds digits but neither "1" nor "*").
CHECKSUM_CHARSET == <<"q", "p", "z", "r", "y", "9", "x", "8", "0", "2">>
ChecksumChars == {CHECKSUM_CHARSET[i] : i \in 1..Len(CHECKSUM_CHARSET)}

Xpubs == {"xpubA", "xpubB"}
CompressedPubKeys == {"02P"}
UncompressedPubKeys == {"04U"}
PubKeys == CompressedPubKeys \cup UncompressedPubKeys
\* address lexemes, by the kind of output script they decode to
AddressKind ==
  [x \in {"1P2PKH", "3P2SH", "bc1qP2WPKH", "bc1qP2WSH", "bc1pP2TR"} |->
     CASE x = "1P2PKH" -> "p2pkh"
       [] x = "3P2SH" -> "p2sh"
       [] x = "bc1qP2WPKH" -> "p2wpkh"
       [] x = "bc1qP2WSH" -> "p2wsh"
       [] x = "bc1pP2TR" -> "p2tr"]
Addresses == DOMAIN AddressKind

\* Every lexeme, in a fixed order: a lexeme's position is its character code.
Alphabet ==
  <<"addr(", "pk(", "pkh(", "wpkh(", "sh(", "wsh(", ")", ",", ":", "#", "*", "/", "'",
    "[o]", "xpubA", "xpubB", "02P", "04U",
    "1P2PKH", "3P2SH", "bc1qP2WPKH", "bc1qP2WSH", "bc1pP2TR", "badaddr",
    "and_v(v:pk(", "or_d(pk(", "),", "older(", "after(", "n",
    "0", "1", "2", "3", "4", "5", "6", "7", "8", "9",
    "q", "p", "z", "r", "y", "x", "B">>

Code(c) ==
  IF \E i \in 1..Len(Alphabet) : Alphabet[i] = c
  THEN CHOOSE i \in 1..Len(Alphabet) : Alphabet[i] = c /\ \A k \in 1..(i - 1) : Alphabet[k] # c
  ELSE 0

\* String.prototype.indexOf(c) !== -1
Contains(s, c) == \E i \in 1..Len(s) : s[i] = c

\* String.prototype.replaceAll(c, by)
RECURSIVE ReplaceAll(_, _, _)
ReplaceAll(s, c, by) ==
  IF s = <<>> THEN <<>>
  ELSE (IF s[1] = c THEN by ELSE <<s[1]>>) \o ReplaceAll(Tail(s), c, by)

\* ----------------------------------------------------------------- checksum

CHECKSUM_LENGTH == 8

RECURSIVE WeightedSum(_, _, _, _)
WeightedSum(s, lo, hi, j) ==
  IF lo > hi THEN 0
  ELSE IF lo = hi THEN (Code(s[lo]) * (lo + j)) % 1009
  ELSE LET mid == (lo + hi) \div 2
       IN (WeightedSum(s, lo, mid, j) + WeightedSum(s, mid + 1, hi, j)) % 1009

\* DescriptorChecksum(body): the 8 checksum characters of a descriptor body.
DescriptorChecksum(body) ==
  [j \in 1..CHECKSUM_LENGTH |->
     CHECKSUM_CHARSET[((WeightedSum(body, 1, Len(body), j) + j * j) % Len(CHECKSUM_CHARSET)) + 1]]

\* descriptor.match(`(${RE.reChecksum})$`): "#" and 8 checksum characters at
\* the end of the string; the match includes the "#".
MatchChecksum(descriptor) ==
  LET n == Len(descriptor) IN
  IF /\ n >= CHECKSUM_LENGTH + 1
     /\ descriptor[n - CHECKSUM_LENGTH] = "#"
     /\ \A i \in (n - CHECKSUM_LENGTH + 1)..n : descriptor[i] \in ChecksumChars
  THEN Some(SubSeq(descriptor, n - CHECKSUM_LENGTH, n))
  ELSE None

\* ----------------------------------------------------------------- evaluate

\* An index argument: undefined, or a number that is an integer (v) or not.
Undefined == [def |-> FALSE, int |-> FALSE, v |-> 0]
Int_(n) == [def |-> TRUE, int |-> TRUE, v |-> n]
NonInteger == [def |-> TRUE, int |-> FALSE, v |-> 1]

Ok(v) == [ok |-> TRUE, val |-> v, error |-> ""]
Err(e) == [ok |-> FALSE, val |-> <<>>, error |-> e]

RECURSIVE ReplaceFirst(_, _, _)
ReplaceFirst(s, c, by) ==
  IF s = <<>> THEN <<>>
  ELSE IF s[1] = c THEN by \o Tail(s)
  ELSE <<s[1]>> \o ReplaceFirst(Tail(s), c, by)

\* lines 96-99 with replace in place of replaceAll
SubstituteFirst(s, index) == ReplaceFirst(s, "*", NumberToString(index.v))

\* lines 85-99 with the index tested for truth, "if (index)": the index 0
\* leaves the wildcards in place
SubstituteUnlessZero(s, index) ==
  IF index.v = 0 THEN s ELSE ReplaceAll(s, "*", NumberToString(index.v))

\* lines 96-99: every "*" becomes index.toString()
Substitute(s, index) == ReplaceAll(s, "*", NumberToString(index.v))

\* line 81 with the comparison left out
ChecksumNeverMismatch(checksum, body) == FALSE

\* line 81: checksum !== DescriptorChecksum(evaluatedDescriptor)
ChecksumMismatch(checksum, body) == checksum # DescriptorChecksum(body)

\* evaluate({ descriptor, checksumRequired, index }): the descriptor without
\* its checksum and with the index in place of the wildcard, or that it threw.
evaluate(descriptor, checksumRequired, index) ==
  IF descriptor = <<>> THEN Err("You must provide a descriptor.")
  ELSE
  LET mChecksum == MatchChecksum(descriptor) IN
  IF mChecksum = None /\ checksumRequired THEN Err("has not checksum")
  ELSE
  LET stripped == IF IsSome(mChecksum)
                  THEN SubSeq(descriptor, 1, Len(descriptor) - Len(Val(mChecksum)))
                  ELSE descriptor
      checksum == IF IsSome(mChecksum) THEN Tail(Val(mChecksum)) ELSE <<>>
  IN
  IF IsSome(mChecksum) /\ ChecksumMismatch(checksum, stripped)
  THEN Err("invalid descriptor checksum")
  ELSE IF index.def
       THEN IF Contains(stripped, "*") THEN Ok(Substitute(stripped, index))
            ELSE Err("index passed for non-ranged descriptor")
       ELSE Ok(stripped)

\* ------------------------------------------------------------ key expressions

\* rePath, as a scanner: "/" then levels (digits, optionally hardened) split by
\* "/", the last of which may be the wildcard "*" (optionally hardened).
\* PathScan is the position of the last lexeme of the longest path read from
\* position i on in state st (acc: the longest one found so far).
RECURSIVE PathScan(_, _, _, _)
PathScan(s, i, st, acc) ==
  IF i > Len(s) THEN acc
  ELSE LET c == s[i] IN
    CASE st = "start" /\ c = "/" -> PathScan(s, i + 1, "slash", acc)
      [] st = "slash" /\ c \in DigitSet -> PathScan(s, i + 1, "digits", i)
      [] st = "slash" /\ c = "*" -> PathScan(s, i + 1, "star", i)
      [] st = "digits" /\ c \in DigitSet -> PathScan(s, i + 1, "digits", i)
      [] st = "digits" /\ c = "'" -> PathScan(s, i + 1, "hard", i)
      [] st = "digits" /\ c = "/" -> PathScan(s, i + 1, "slash", acc)
      [] st = "hard" /\ c = "/" -> PathScan(s, i + 1, "slash", acc)
      [] st = "star" /\ c = "'" -> i
      [] OTHER -> acc

\* reKeyExp matched at position p: the position of the last lexeme of the
\* key expression that starts at p (optional origin, then an extended key with
\* an optional path, or a public key), 0 when none starts there.
KeyEnd(s, p) ==
  LET q == IF p <= Len(s) /\ s[p] = "[o]" THEN p + 1 ELSE p IN
  IF q > Len(s) THEN 0
  ELSE IF s[q] \in PubKeys THEN q
  ELSE IF s[q] \in Xpubs THEN PathScan(s, q + 1, "start", q)
  ELSE 0

\* s.match(RE.reKeyExp)?.[0]: the leftmost key expression of s.
RECURSIVE FirstKeyExpFrom(_, _)
FirstKeyExpFrom(s, p) ==
  IF p > Len(s) THEN None
  ELSE IF KeyEnd(s, p) > 0 THEN Some(SubSeq(s, p, KeyEnd(s, p)))
  ELSE FirstKeyExpFrom(s, p + 1)
MatchKeyExp(s) == FirstKeyExpFrom(s, 1)

\* The whole of s is one key expression.
IsKeyExp(s) == s # <<>> /\ KeyEnd(s, 1) = Len(s)

\* The levels of a path, as numbers: [n, hardened].
RECURSIVE PathLevels(_, _, _)
PathLevels(s, i, cur) ==
  IF i > Len(s)
  THEN IF cur = <<>> THEN <<>> ELSE <<[n |-> ParseInt(cur), h |-> FALSE]>>
  ELSE IF s[i] \in DigitSet THEN PathLevels(s, i + 1, Append(cur, s[i]))
  ELSE IF s[i] = "'" /\ cur # <<>>
       THEN <<[n |-> ParseInt(cur), h |-> TRUE]>> \o PathLevels(s, i + 1, <<>>)
  ELSE IF cur # <<>>
       THEN <<[n |-> ParseInt(cur), h |-> FALSE]>> \o PathLevels(s, i + 1, <<>>)
  ELSE PathLevels(s, i + 1, <<>>)

\* parseKeyExpression: the key-info record of a key expression. pubkey is
\* the point derived from the key along the path, absent while the path holds
\* the wildcard; an uncompressed public key is refused in a segwit context.
parseKeyExpression(keyExpression, isSegwit) ==
  LET q == IF keyExpression[1] = "[o]" THEN 2 ELSE 1
      key == keyExpression[q]
      path == SubSeq(keyExpression, q + 1, Len(keyExpression))
  IN IF key \in UncompressedPubKeys /\ isSegwit
     THEN Err("uncompressed key in a segwit context")
     ELSE Ok([keyExpression |-> keyExpression,
              pubkey |-> IF Contains(keyExpression, "*") THEN None
                         ELSE Some([key |-> key, path |-> PathLevels(path, 1, <<>>)])])

\* ------------------------------------------------------------------ grammar

\* Anchored shell patterns: the whole string must match.
Wrapped(s, open) ==
  /\ Len(s) >= Len(open) + 1
  /\ SubSeq(s, 1, Len(open)) = open
  /\ s[Len(s)] = ")"
\* what the pattern captures between the shell's parentheses
Inner(s, open, nclose) == SubSeq(s, Len(open) + 1, Len(s) - nclose)

reAddrAnchored(s) == Wrapped(s, <<"addr(">>)
rePkAnchored(s) == Wrapped(s, <<"pk(">>) /\ IsKeyExp(Inner(s, <<"pk(">>, 1))
rePkhAnchored(s) == Wrapped(s, <<"pkh(">>) /\ IsKeyExp(Inner(s, <<"pkh(">>, 1))
reWpkhAnchored(s) == Wrapped(s, <<"wpkh(">>) /\ IsKeyExp(Inner(s, <<"wpkh(">>, 1))
reShWpkhAnchored(s) ==
  /\ Wrapped(s, <<"sh(", "wpkh(">>)
  /\ Len(s) >= 4 /\ s[Len(s) - 1] = ")"
  /\ IsKeyExp(Inner(s, <<"sh(", "wpkh(">>, 2))
reShWshMiniscriptAnchored(s) ==
  Wrapped(s, <<"sh(", "wsh(">>) /\ Len(s) >= 4 /\ s[Len(s) - 1] = ")"
reShMiniscriptAnchored(s) == Wrapped(s, <<"sh(">>)
reWshMiniscriptAnchored(s) == Wrapped(s, <<"wsh(">>)

\* ------------------------------------------------------------------ scripts

\* A script is a sequence of chunks: an opcode, or a data push of len bytes.
OPS == [OP_0 |-> 0, OP_1 |-> 81, OP_16 |-> 96, OP_DUP |-> 118, OP_IFDUP |-> 115,
        OP_NOTIF |-> 100, OP_ENDIF |-> 104, OP_EQUAL |-> 135, OP_EQUALVERIFY |-> 136,
        OP_0NOTEQUAL |-> 146, OP_HASH160 |-> 169, OP_CHECKSIG |-> 172,
        OP_CHECKSIGVERIFY |-> 173, OP_CHECKLOCKTIMEVERIFY |-> 177,
        OP_CHECKSEQUENCEVERIFY |-> 178]
Op(n) == [isOp |-> TRUE, op |-> n, len |-> 0, data |-> <<>>]
Push(x, l) == [isOp |-> FALSE, op |-> 0, len |-> l, data |-> <<x>>]

\* the push of a public key: 33 bytes compressed, 65 uncompressed
PushKey(pubkey) ==
  Push(pubkey, IF pubkey.key \in UncompressedPubKeys THEN 65 ELSE 33)
\* the minimal push of a script number
PushNumber(n) ==
  IF n = 0 THEN Op(OPS.OP_0)
  ELSE IF n <= 16 THEN Op(OPS.OP_1 + n - 1)
  ELSE Push(n, IF n < 128 THEN 1 ELSE IF n < 32768 THEN 2 ELSE 3)

Hash160(x) == [hash |-> "hash160", of |-> x]
Sha256(x) == [hash |-> "sha256", of |-> x]

\* script.byteLength
RECURSIVE BytesBetween(_, _, _)
BytesBetween(script, lo, hi) ==
  IF lo > hi THEN 0
  ELSE IF lo = hi THEN (IF script[lo].isOp THEN 1 ELSE 1 + script[lo].len)
  ELSE BytesBetween(script, lo, (lo + hi) \div 2)
       + BytesBetween(script, ((lo + hi) \div 2) + 1, hi)
ByteLength(script) == BytesBetween(script, 1, Len(script))

\* bscript.decompile: the chunks of a script, opcodes as numbers.
Decompile(script) == script

MAX_SCRIPT_ELEMENT_SIZE == 520
MAX_STANDARD_P2WSH_SCRIPT_SIZE == 3600
MAX_OPS_PER_SCRIPT == 201

\* decompile.filter(op => typeof op === 'number' && op > OPS.OP_16).length
NonPushOnly(decompile) ==
  {i \in 1..Len(decompile) : decompile[i].isOp /\ decompile[i].op > OPS.OP_16}

countNonPushOnlyOPs(script) == Cardinality(NonPushOnly(Decompile(script)))

\* ----------------------------------------------------------------- payments

p2pk(pubkey) ==
  [type |-> "p2pk", output |-> <<PushKey(pubkey), Op(OPS.OP_CHECKSIG)>>]
p2pkhScript(h) ==
  <<Op(OPS.OP_DUP), Op(OPS.OP_HASH160), Push(h, 20), Op(OPS.OP_EQUALVERIFY),
    Op(OPS.OP_CHECKSIG)>>
p2pkh(pubkey) == [type |-> "p2pkh", output |-> p2pkhScript(Hash160(pubkey))]
p2wpkh(pubkey) ==
  [type |-> "p2wpkh", output |-> <<Op(OPS.OP_0), Push(Hash160(pubkey), 20)>>]
\* p2wsh({ redeem: { output: script } })
p2wsh(script) ==
  [type |-> "p2wsh", output |-> <<Op(OPS.OP_0), Push(Sha256(script), 32)>>]
\* p2sh({ redeem: { output: script } })
p2sh(script) ==
  [type |-> "p2sh",
   output |-> <<Op(OPS.OP_HASH160), Push(Hash160(script), 20), Op(OPS.OP_EQUAL)>>]

\* address.toOutputScript(address, network): the output script an address
\* stands for; it throws on what is no address of the network.
toOutputScript(addr, network) ==
  IF Len(addr) = 1 /\ addr[1] \in Addresses /\ network = "bitcoin"
  THEN LET h == [hash |-> "address", of |-> addr[1]]
           kind == AddressKind[addr[1]]
       IN Ok(CASE kind = "p2pkh" -> p2pkhScript(h)
               [] kind = "p2sh" ->
                    <<Op(OPS.OP_HASH160), Push(h, 20), Op(OPS.OP_EQUAL)>>
               [] kind = "p2wpkh" -> <<Op(OPS.OP_0), Push(h, 20)>>
               [] kind = "p2wsh" -> <<Op(OPS.OP_0), Push(h, 32)>>
               [] kind = "p2tr" -> <<Op(OPS.OP_1), Push(h, 32)>>)
  ELSE Err("invalid address")

IsOp(chunk, n) == chunk.isOp /\ chunk.op = n
IsPush(chunk, l) == ~chunk.isOp /\ chunk.len = l

\* pN({ output, network }) succeeds on an output script of its own shape only.
PaymentAccepts(kind, output) ==
  CASE kind = "p2pkh" ->
         /\ Len(output) = 5
         /\ IsOp(output[1], OPS.OP_DUP) /\ IsOp(output[2], OPS.OP_HASH160)
         /\ IsPush(output[3], 20) /\ IsOp(output[4], OPS.OP_EQUALVERIFY)
         /\ IsOp(output[5], OPS.OP_CHECKSIG)
    [] kind = "p2sh" ->
         /\ Len(output) = 3
         /\ IsOp(output[1], OPS.OP_HASH160) /\ IsPush(output[2], 20)
         /\ IsOp(output[3], OPS.OP_EQUAL)
    [] kind = "p2wpkh" ->
         Len(output) = 2 /\ IsOp(output[1], OPS.OP_0) /\ IsPush(output[2], 20)
    [] kind = "p2wsh" ->
         Len(output) = 2 /\ IsOp(output[1], OPS.OP_0) /\ IsPush(output[2], 32)
    [] kind = "p2tr" ->
         Len(output) = 2 /\ IsOp(output[1], OPS.OP_1) /\ IsPush(output[2], 32)

\* The five trial parses of lines 268-282, in turn: the last success is kept.
PaymentKinds == <<"p2pkh", "p2sh", "p2wpkh", "p2wsh", "p2tr">>
RECURSIVE TrialParse(_, _, _)
TrialParse(output, kinds, payment) ==
  IF kinds = <<>> THEN payment
  ELSE TrialParse(output, Tail(kinds),
                  IF PaymentAccepts(kinds[1], output)
                  THEN Some([type |-> kinds[1], output |-> output])
                  ELSE payment)

\* --------------------------------------------------------------- miniscript

PlaceholderNames == <<"@0", "@1", "@2", "@3">>
Placeholders == {PlaceholderNames[i] : i \in 1..Len(PlaceholderNames)}

RECURSIVE PositionIn(_, _, _)
PositionIn(seq, x, i) ==
  IF i > Len(seq) THEN 0 ELSE IF seq[i] = x THEN i ELSE PositionIn(seq, x, i + 1)

\* Where the expander finds a key expression, reading from left to right:
\* where one starts that is not the key of an origin read just before.
KeyStarts(s) ==
  {p \in 1..Len(s) :
     KeyEnd(s, p) > 0 /\ ~(p > 1 /\ s[p - 1] = "[o]" /\ s[p] # "[o]")}

IsLexeme(x) == x # <<>>

\* Steps 1-3 of the expander: every key expression, left to right, becomes
\* the placeholder of its first appearance. starts: where they start.
ExpandScan(s, starts) ==
  LET keyAt(p) == SubSeq(s, p, KeyEnd(s, p))
      firsts == {p \in starts : ~\E q \in starts : q < p /\ keyAt(q) = keyAt(p)}
      rank(q) == Cardinality({r \in firsts : r <= q})
      lexemes == [p \in 1..Len(s) |->
                   IF p \in starts
                   THEN <<PlaceholderNames[
                            rank(CHOOSE q \in firsts : keyAt(q) = keyAt(p))]>>
                   ELSE IF \E q \in starts : q < p /\ p <= KeyEnd(s, q) THEN <<>>
                   ELSE <<s[p]>>]
      kept == SelectSeq(lexemes, IsLexeme)
  IN [expandedMiniscript |-> [i \in 1..Len(kept) |-> kept[i][1]],
      keys |-> [i \in 1..Cardinality(firsts) |->
                  keyAt(CHOOSE q \in firsts : rank(q) = i)]]

\* expandMiniscript({ miniscript, isSegwit, network }); the expansion map is
\* the sequence of key-info records, that of "@i" at position i + 1.
expandMiniscript(miniscript, isSegwit) ==
  LET r == ExpandScan(miniscript, KeyStarts(miniscript))
      parsed == [i \in 1..Len(r.keys) |-> parseKeyExpression(r.keys[i], isSegwit)]
  IN IF \E i \in 1..Len(parsed) : ~parsed[i].ok
     THEN Err("uncompressed key in a segwit context")
     ELSE Ok([expandedMiniscript |-> r.expandedMiniscript,
              expansionMap |-> [i \in 1..Len(parsed) |-> parsed[i].val]])

\* the end of the run of digits that starts at p (p - 1 when none does)
RECURSIVE DigitsEnd(_, _)
DigitsEnd(s, p) ==
  IF p <= Len(s) /\ s[p] \in DigitSet THEN DigitsEnd(s, p + 1) ELSE p - 1

At(s, p) == IF p >= 1 /\ p <= Len(s) THEN s[p] ELSE ""
NoScript == [ok |-> FALSE, script |-> <<>>, next |-> 0]

\* the placeholder at position p stands for a key of the map that has a point
KeyOk(s, p, map) ==
  /\ At(s, p) \in Placeholders
  /\ PositionIn(PlaceholderNames, At(s, p), 1) <= Len(map)
  /\ IsSome(map[PositionIn(PlaceholderNames, At(s, p), 1)].pubkey)
KeyOf(s, p, map) == Val(map[PositionIn(PlaceholderNames, At(s, p), 1)].pubkey)

\* how many wrappers "n" stand in a row from position p on
WrapperRun(s, p) ==
  CHOOSE k \in 0..Len(s) :
    (\A j \in 0..(k - 1) : At(s, p + j) = "n") /\ At(s, p + k) # "n"

\* and_v(v:pk(KEY), stands at position p
AndVAt(s, p, map) ==
  At(s, p) = "and_v(v:pk(" /\ KeyOk(s, p + 1, map) /\ At(s, p + 2) = "),"
\* how many of them stand in a row from position p on
AndVRun(s, p, map) ==
  CHOOSE k \in 0..Len(s) :
    (\A j \in 0..(k - 1) : AndVAt(s, p + 3 * j, map)) /\ ~AndVAt(s, p + 3 * k, map)

\* The compiler, by recursive descent from position p: the script of the
\* fragment there and the position after it. A run of wrappers, and a run of
\* and_v(v:pk(KEY), each nested in the one before, is read in one step.
RECURSIVE CompileAt(_, _, _)
CompileAt(s, p, map) ==
  LET c == At(s, p)
      keyOk == KeyOk(s, p + 1, map)
      key == KeyOf(s, p + 1, map)
  IN
  IF c = "n" THEN
    LET k == WrapperRun(s, p) IN
    IF At(s, p + k) # ":" THEN NoScript
    ELSE LET r == CompileAt(s, p + k + 1, map) IN
      IF r.ok
      THEN [r EXCEPT !.script = @ \o [i \in 1..k |-> Op(OPS.OP_0NOTEQUAL)]]
      ELSE NoScript
  ELSE IF c = "pk(" THEN
    IF keyOk /\ At(s, p + 2) = ")"
    THEN [ok |-> TRUE, script |-> <<PushKey(key), Op(OPS.OP_CHECKSIG)>>, next |-> p + 3]
    ELSE NoScript
  ELSE IF c = "pkh(" THEN
    IF keyOk /\ At(s, p + 2) = ")"
    THEN [ok |-> TRUE, script |-> p2pkhScript(Hash160(key)), next |-> p + 3]
    ELSE NoScript
  ELSE IF c = "and_v(v:pk(" THEN
    LET k == AndVRun(s, p, map) IN
    IF k = 0 THEN NoScript
    ELSE LET r == CompileAt(s, p + 3 * k, map) IN
      IF r.ok /\ \A j \in 0..(k - 1) : At(s, r.next + j) = ")"
      THEN [ok |-> TRUE,
            script |-> [i \in 1..(2 * k) |->
                          IF i % 2 = 1
                          THEN PushKey(KeyOf(s, p + 3 * ((i - 1) \div 2) + 1, map))
                          ELSE Op(OPS.OP_CHECKSIGVERIFY)] \o r.script,
            next |-> r.next + k]
      ELSE NoScript
  ELSE IF c = "or_d(pk(" THEN
    IF keyOk /\ At(s, p + 2) = ")," THEN
      LET r == CompileAt(s, p + 3, map) IN
      IF r.ok /\ At(s, r.next) = ")"
      THEN [ok |-> TRUE,
            script |-> <<PushKey(key), Op(OPS.OP_CHECKSIG), Op(OPS.OP_IFDUP),
                         Op(OPS.OP_NOTIF)>> \o r.script \o <<Op(OPS.OP_ENDIF)>>,
            next |-> r.next + 1]
      ELSE NoScript
    ELSE NoScript
  ELSE IF c \in {"older(", "after("} THEN
    LET e == DigitsEnd(s, p + 1) IN
    IF e >= p + 1 /\ At(s, e + 1) = ")"
    THEN [ok |-> TRUE,
          script |-> <<PushNumber(ParseInt(SubSeq(s, p + 1, e))),
                       Op(IF c = "older(" THEN OPS.OP_CHECKSEQUENCEVERIFY
                          ELSE OPS.OP_CHECKLOCKTIMEVERIFY)>>,
          next |-> e + 2]
    ELSE NoScript
  ELSE NoScript

\* miniscript2Script({ expandedMiniscript, expansionMap }): the compiled
\* script; it throws on what is no miniscript.
miniscript2Script(expandedMiniscript, expansionMap) ==
  LET r == CompileAt(expandedMiniscript, 1, expansionMap) IN
  IF r.ok /\ r.next = Len(expandedMiniscript) + 1 THEN Ok(r.script)
  ELSE Err("miniscript could not be compiled")

\* ------------------------------------------------------------------- expand

\* What expand returns, or that it threw; calls: the collaborators it called
\* on the way, in order.
Expansion(payment, expandedExpression, miniscript, expansionMap, isSegwit, expandedMiniscript, redeemScript, witnessScript, calls) ==
  [ok |-> TRUE, error |-> "", payment |-> payment,
   expandedExpression |-> expandedExpression, miniscript |-> miniscript,
   expansionMap |-> expansionMap, isSegwit |-> isSegwit,
   expandedMiniscript |-> expandedMiniscript, redeemScript |-> redeemScript,
   witnessScript |-> witnessScript, isRanged |-> FALSE,
   canonicalExpression |-> <<>>, calls |-> calls]
Thrown(error, calls) ==
  [ok |-> FALSE, error |-> error, payment |-> None, expandedExpression |-> None,
   miniscript |-> None, expansionMap |-> None, isSegwit |-> None,
   expandedMiniscript |-> None, redeemScript |-> None, witnessScript |-> None,
   isRanged |-> FALSE, canonicalExpression |-> <<>>, calls |-> calls]

\* lines 257-286 with isSegwit read off the kind of the address
AddrShellSegwitByKind(canonicalExpression, isRanged, network) ==
  LET matchedAddress == Inner(canonicalExpression, <<"addr(">>, 1)
      output == toOutputScript(matchedAddress, network)
      payment == TrialParse(output.val, PaymentKinds, None)
  IN IF isRanged THEN Thrown("addr() cannot be ranged", <<>>)
     ELSE IF matchedAddress = <<>> THEN Thrown("could not get an address", <<>>)
     ELSE IF ~output.ok THEN Thrown("invalid address", <<"toOutputScript">>)
     ELSE IF payment = None THEN Thrown("invalid address", <<"toOutputScript">>)
     ELSE Expansion(payment, None, None, None,
                    Some(Val(payment).type \in {"p2wpkh", "p2wsh", "p2tr"}),
                    None, None, None, <<"toOutputScript">>)

\* addr(ADDR), lines 257-286
AddrShell(canonicalExpression, isRanged, network) ==
  LET matchedAddress == Inner(canonicalExpression, <<"addr(">>, 1)
      output == toOutputScript(matchedAddress, network)
      payment == TrialParse(output.val, PaymentKinds, None)
  IN IF isRanged THEN Thrown("addr() cannot be ranged", <<>>)
     ELSE IF matchedAddress = <<>> THEN Thrown("could not get an address", <<>>)
     ELSE IF ~output.ok THEN Thrown("invalid address", <<"toOutputScript">>)
     ELSE IF payment = None THEN Thrown("invalid address", <<"toOutputScript">>)
     ELSE Expansion(payment, None, None, None, None, None, None, None,
                    <<"toOutputScript">>)

\* pk(KEY), pkh(KEY), sh(wpkh(KEY)), wpkh(KEY): lines 288-372
KeyShell(canonicalExpression, isCanonicalRanged, shell) ==
  LET isSegwit == shell \in {"sh(wpkh", "wpkh"}
      open == CASE shell = "pk" -> <<"pk(">>
                [] shell = "pkh" -> <<"pkh(">>
                [] shell = "sh(wpkh" -> <<"sh(", "wpkh(">>
                [] shell = "wpkh" -> <<"wpkh(">>
      close == IF shell = "sh(wpkh" THEN <<")", ")">> ELSE <<")">>
      keyExpression == MatchKeyExp(canonicalExpression)
      pKE == parseKeyExpression(Val(keyExpression), isSegwit)
      pubkey == pKE.val.pubkey
      expandedExpression == open \o <<"@0">> \o close
      calls == <<"parseKeyExpression">>
  IN IF keyExpression = None THEN Thrown("keyExpression could not me extracted", <<>>)
     ELSE IF canonicalExpression # open \o Val(keyExpression) \o close
       THEN Thrown("invalid expression", <<>>)
     ELSE IF ~pKE.ok THEN Thrown(pKE.error, calls)
     ELSE IF isCanonicalRanged
       THEN Expansion(None, Some(expandedExpression), None, Some(<<pKE.val>>),
                      Some(isSegwit), None, None, None, calls)
     ELSE IF pubkey = None THEN Thrown("could not extract a pubkey", calls)
     ELSE LET payment ==
                CASE shell = "pk" -> p2pk(Val(pubkey))
                  [] shell = "pkh" -> p2pkh(Val(pubkey))
                  [] shell = "sh(wpkh" -> p2sh(p2wpkh(Val(pubkey)).output)
                  [] shell = "wpkh" -> p2wpkh(Val(pubkey))
          IN Expansion(Some(payment), Some(expandedExpression), None,
                       Some(<<pKE.val>>), Some(isSegwit), None,
                       IF shell = "sh(wpkh" THEN Some(p2wpkh(Val(pubkey)).output)
                       ELSE None,
                       None, calls)

\* The head tokens lines 424-426 admit in sh() without allowMiniscriptInP2SH.
P2SHHeads ==
  {"pk(", "pkh(", "wpkh(", "combo(", "multi(", "sortedmulti(", "multi_a(",
   "sortedmulti_a("}
\* The test of lines 419-427 negated: the miniscript may stand in sh().
AnyMiniscriptInP2SH(miniscript, allowMiniscriptInP2SH) == TRUE

MiniscriptAllowedInP2SH(miniscript, allowMiniscriptInP2SH) ==
  ~(allowMiniscriptInP2SH = FALSE /\ miniscript[1] \notin P2SHHeads)

\* The byte cap of a shell's script: lines 389, 442, 472.
SameCapForAll(shell) == MAX_STANDARD_P2WSH_SCRIPT_SIZE

MaxScriptSize(shell) ==
  IF shell = "sh" THEN MAX_SCRIPT_ELEMENT_SIZE ELSE MAX_STANDARD_P2WSH_SCRIPT_SIZE

\* what opens and what closes each shell of a miniscript
ShellOpen(shell) ==
  CASE shell = "sh(wsh" -> <<"sh(", "wsh(">>
    [] shell = "sh" -> <<"sh(">>
    [] shell = "wsh" -> <<"wsh(">>
ShellClose(shell) == IF shell = "sh(wsh" THEN <<")", ")">> ELSE <<")">>

\* lines 388-409, 441-454, 471-483 with the compiled script of sh(wsh())
\* returned as redeemScript and the p2wsh program as witnessScript
MiniscriptCompiledScriptsSwapped(shell, miniscript, expanded, compiled) ==
  LET script == compiled.val
      expandedExpression ==
        ShellOpen(shell) \o expanded.expandedMiniscript \o ShellClose(shell)
      calls == <<"expandMiniscript", "miniscript2Script">>
  IN IF ~compiled.ok THEN Thrown(compiled.error, calls)
     ELSE IF ByteLength(script) > MaxScriptSize(shell)
       THEN Thrown("script is too large", calls)
     ELSE IF countNonPushOnlyOPs(script) > MAX_OPS_PER_SCRIPT
       THEN Thrown("too many non-push ops", calls)
     ELSE Expansion(
            Some(CASE shell = "sh(wsh" -> p2sh(p2wsh(script).output)
                   [] shell = "sh" -> p2sh(script)
                   [] shell = "wsh" -> p2wsh(script)),
            Some(expandedExpression), Some(miniscript), Some(expanded.expansionMap),
            Some(shell # "sh"), Some(expanded.expandedMiniscript),
            CASE shell = "sh(wsh" -> Some(script)
              [] shell = "sh" -> Some(script)
              [] shell = "wsh" -> None,
            CASE shell = "sh(wsh" -> Some(p2wsh(script).output)
              [] shell = "sh" -> None
              [] shell = "wsh" -> Some(script),
            calls)

\* Lines 388-409, 441-454, 471-483: the limits on the compiled script, and
\* the payment around it. compiled: what miniscript2Script returned.
MiniscriptCompiled(shell, miniscript, expanded, compiled) ==
  LET script == compiled.val
      expandedExpression ==
        ShellOpen(shell) \o expanded.expandedMiniscript \o ShellClose(shell)
      calls == <<"expandMiniscript", "miniscript2Script">>
  IN IF ~compiled.ok THEN Thrown(compiled.error, calls)
     ELSE IF ByteLength(script) > MaxScriptSize(shell)
       THEN Thrown("script is too large", calls)
     ELSE IF countNonPushOnlyOPs(script) > MAX_OPS_PER_SCRIPT
       THEN Thrown("too many non-push ops", calls)
     ELSE Expansion(
            Some(CASE shell = "sh(wsh" -> p2sh(p2wsh(script).output)
                   [] shell = "sh" -> p2sh(script)
                   [] shell = "wsh" -> p2wsh(script)),
            Some(expandedExpression), Some(miniscript), Some(expanded.expansionMap),
            Some(shell # "sh"), Some(expanded.expandedMiniscript),
            CASE shell = "sh(wsh" -> Some(p2wsh(script).output)
              [] shell = "sh" -> Some(script)
              [] shell = "wsh" -> None,
            IF shell = "sh" THEN None ELSE Some(script),
            calls)

\* lines 380-387, 432-440, 463-470 with the expansion kept only where the
\* script is compiled
MiniscriptExpandedWhenCompiled(shell, miniscript, isCanonicalRanged, em) ==
  IF ~em.ok THEN Thrown(em.error, <<"expandMiniscript">>)
  ELSE IF isCanonicalRanged
    THEN Expansion(None, None, Some(miniscript), None, Some(shell # "sh"),
                   None, None, None, <<"expandMiniscript">>)
  ELSE MiniscriptCompiled(shell, miniscript, em.val,
                          miniscript2Script(em.val.expandedMiniscript,
                                            em.val.expansionMap))

\* Lines 380-387, 432-440, 463-470: after expandMiniscript; the script is
\* compiled unless the expression is still ranged. em: what it returned.
MiniscriptExpanded(shell, miniscript, isCanonicalRanged, em) ==
  IF ~em.ok THEN Thrown(em.error, <<"expandMiniscript">>)
  ELSE IF isCanonicalRanged
    THEN Expansion(None,
                   Some(ShellOpen(shell) \o em.val.expandedMiniscript \o ShellClose(shell)),
                   Some(miniscript), Some(em.val.expansionMap), Some(shell # "sh"),
                   Some(em.val.expandedMiniscript), None, None, <<"expandMiniscript">>)
  ELSE MiniscriptCompiled(shell, miniscript, em.val,
                          miniscript2Script(em.val.expandedMiniscript,
                                            em.val.expansionMap))

\* sh(wsh(miniscript)), sh(miniscript), wsh(miniscript): lines 374-484
MiniscriptShell(canonicalExpression, isCanonicalRanged, shell, allowMiniscriptInP2SH) ==
  LET miniscript ==
        Inner(canonicalExpression, ShellOpen(shell), Len(ShellClose(shell)))
  IN IF miniscript = <<>> THEN Thrown("could not get miniscript", <<>>)
     ELSE IF shell = "sh" /\ ~MiniscriptAllowedInP2SH(miniscript, allowMiniscriptInP2SH)
       THEN Thrown("Miniscript expressions can only be used in wsh", <<>>)
     ELSE MiniscriptExpanded(shell, miniscript, isCanonicalRanged,
                             expandMiniscript(miniscript, shell # "sh"))

\* lines 243-245 without Number.isInteger
IndexNegative(index) == index.def /\ index.v < 0

\* The test of lines 243-245.
IndexInvalid(index) == index.def /\ (~index.int \/ index.v < 0)

\* line 254 on the descriptor in place of the canonical expression
IsRangedBeforeEvaluate(descriptor, canonicalExpression) == Contains(descriptor, "*")

\* line 254: canonicalExpression.indexOf('*') !== -1
IsCanonicalRanged(descriptor, canonicalExpression) ==
  Contains(canonicalExpression, "*")

\* lines 329-484 with the sh(miniscript) branch tested before sh(wpkh(KEY))
ShellOfMiniscriptFirst(canonicalExpression) ==
  IF reAddrAnchored(canonicalExpression) THEN "addr"
  ELSE IF rePkAnchored(canonicalExpression) THEN "pk"
  ELSE IF rePkhAnchored(canonicalExpression) THEN "pkh"
  ELSE IF reShWshMiniscriptAnchored(canonicalExpression) THEN "sh(wsh"
  ELSE IF reShMiniscriptAnchored(canonicalExpression) THEN "sh"
  ELSE IF reShWpkhAnchored(canonicalExpression) THEN "sh(wpkh"
  ELSE IF reWpkhAnchored(canonicalExpression) THEN "wpkh"
  ELSE IF reWshMiniscriptAnchored(canonicalExpression) THEN "wsh"
  ELSE ""

\* The else-if chain of lines 257-487: the first pattern that matches.
ShellOf(canonicalExpression) ==
  IF reAddrAnchored(canonicalExpression) THEN "addr"
  ELSE IF rePkAnchored(canonicalExpression) THEN "pk"
  ELSE IF rePkhAnchored(canonicalExpression) THEN "pkh"
  ELSE IF reShWpkhAnchored(canonicalExpression) THEN "sh(wpkh"
  ELSE IF reWpkhAnchored(canonicalExpression) THEN "wpkh"
  ELSE IF reShWshMiniscriptAnchored(canonicalExpression) THEN "sh(wsh"
  ELSE IF reShMiniscriptAnchored(canonicalExpression) THEN "sh"
  ELSE IF reWshMiniscriptAnchored(canonicalExpression) THEN "wsh"
  ELSE ""

\* The branch of lines 257-487 that the first matching pattern selects.
Dispatch(canonicalExpression, isRanged, isCanonicalRanged, network, allowMiniscriptInP2SH) ==
  LET shell == ShellOf(canonicalExpression) IN
  IF shell = "addr" THEN AddrShell(canonicalExpression, isRanged, network)
  ELSE IF shell \in {"pk", "pkh", "sh(wpkh", "wpkh"}
    THEN KeyShell(canonicalExpression, isCanonicalRanged, shell)
  ELSE IF shell \in {"sh(wsh", "sh", "wsh"}
    THEN MiniscriptShell(canonicalExpression, isCanonicalRanged, shell,
                         allowMiniscriptInP2SH)
  ELSE Thrown("Could not parse descriptor", <<>>)

\* lines 241-250 with the test of the index after the call of evaluate
expandEvaluateFirst(descriptor, index, checksumRequired, network, allowMiniscriptInP2SH) ==
  IF descriptor = <<>> THEN Thrown("descriptor not provided", <<>>)
  ELSE
  LET isRanged == Contains(descriptor, "*")
      evaluated == evaluate(descriptor, checksumRequired, index)
      canonicalExpression == evaluated.val
  IN IF ~evaluated.ok THEN Thrown(evaluated.error, <<"evaluate">>)
     ELSE IF IndexInvalid(index) THEN Thrown("invalid index", <<"evaluate">>)
     ELSE [Dispatch(canonicalExpression, isRanged,
                    IsCanonicalRanged(descriptor, canonicalExpression), network,
                    allowMiniscriptInP2SH)
             EXCEPT !.isRanged = isRanged,
                    !.canonicalExpression = canonicalExpression,
                    !.calls = <<"evaluate">> \o @]

\* expand({ descriptor, index, checksumRequired, network, allowMiniscriptInP2SH })
expand(descriptor, index, checksumRequired, network, allowMiniscriptInP2SH) ==
  IF descriptor = <<>> THEN Thrown("descriptor not provided", <<>>)
  ELSE IF IndexInvalid(index) THEN Thrown("invalid index", <<>>)
  ELSE
  LET isRanged == Contains(descriptor, "*")
      evaluated == evaluate(descriptor, checksumRequired, index)
      canonicalExpression == evaluated.val
  IN IF ~evaluated.ok THEN Thrown(evaluated.error, <<"evaluate">>)
     ELSE [Dispatch(canonicalExpression, isRanged,
                    IsCanonicalRanged(descriptor, canonicalExpression), network,
                    allowMiniscriptInP2SH)
             EXCEPT !.isRanged = isRanged,
                    !.canonicalExpression = canonicalExpression,
                    !.calls = <<"evaluate">> \o @]

\* ------------------------------------------------------------------- Output

\* new Output({ descriptor, index, checksumRequired, allowMiniscriptInP2SH,
\* network, preimages, signersPubKeys }): the instance's private fields, or
\* that the constructor threw. Lines 555-674.
NoOutput(error) ==
  [ok |-> FALSE, error |-> error, payment |-> None, preimages |-> <<>>,
   signersPubKeys |-> <<>>, miniscript |-> None, witnessScript |-> None,
   redeemScript |-> None, isSegwit |-> None, expandedExpression |-> None,
   expandedMiniscript |-> None, expansionMap |-> None, network |-> ""]

\* lines 627-632 left out
NoConstructionGuard(expandedResult, index) == ""

\* lines 627-632: the expansion an instance cannot be built from
ConstructionGuard(expandedResult, index) ==
  IF expandedResult.isRanged /\ ~index.def
    THEN "index was not provided for ranged descriptor"
  ELSE IF expandedResult.payment = None THEN "could not extract a payment"
  ELSE ""

\* Lines 627-673: the instance built from what expand returned.
OutputOf(expandedResult, index, network, preimages, signersPubKeys) ==
  LET expansionMap == expandedResult.expansionMap
      out == [ok |-> TRUE, error |-> "", payment |-> expandedResult.payment,
              preimages |-> preimages, signersPubKeys |-> <<>>,
              miniscript |-> expandedResult.miniscript,
              witnessScript |-> expandedResult.witnessScript,
              redeemScript |-> expandedResult.redeemScript,
              isSegwit |-> expandedResult.isSegwit,
              expandedExpression |-> expandedResult.expandedExpression,
              expandedMiniscript |-> expandedResult.expandedMiniscript,
              expansionMap |-> expansionMap, network |-> network]
  IN IF ~expandedResult.ok THEN NoOutput(expandedResult.error)
     ELSE IF ConstructionGuard(expandedResult, index) # ""
       THEN NoOutput(ConstructionGuard(expandedResult, index))
     ELSE IF IsSome(signersPubKeys)
       THEN [out EXCEPT !.signersPubKeys = Val(signersPubKeys)]
     ELSE IF IsSome(expansionMap)
       THEN IF \E i \in 1..Len(Val(expansionMap)) : Val(expansionMap)[i].pubkey = None
            THEN NoOutput("could not extract a pubkey")
            ELSE [out EXCEPT !.signersPubKeys =
                    [i \in 1..Len(Val(expansionMap)) |->
                       Val(Val(expansionMap)[i].pubkey)]]
     ELSE IF ~reAddrAnchored(expandedResult.canonicalExpression)
       THEN NoOutput("expansionMap not available")
     ELSE [out EXCEPT !.signersPubKeys = <<Val(expandedResult.payment).output>>]

NewOutput(descriptor, index, checksumRequired, allowMiniscriptInP2SH, network, preimages, signersPubKeys) ==
  OutputOf(expand(descriptor, index, checksumRequired, network, allowMiniscriptInP2SH),
           index, network, preimages, signersPubKeys)

\* ---------------------------------------------------------------- satisfier

\* A satisfaction: the time constraints it needs, the keys whose signatures
\* it spends, and its weight.
Solution(nLockTime, nSequence, keys, weight) ==
  [nLockTime |-> nLockTime, nSequence |-> nSequence, keys |-> keys, weight |-> weight]
NoSolutions == [ok |-> FALSE, sols |-> {}, next |-> 0]

\* The satisfactions of the fragment at position p, given the public keys
\* that signed, and the position after the fragment.
RECURSIVE SolutionsAt(_, _, _, _)
SolutionsAt(s, p, map, signers) ==
  LET c == At(s, p)
      k == PositionIn(PlaceholderNames, At(s, p + 1), 1)
      keyOk == k >= 1 /\ k <= Len(map) /\ IsSome(map[k].pubkey)
      key == Val(map[k].pubkey)
      bySig == IF key \in signers THEN {Solution(None, None, {key}, 1)} ELSE {}
  IN
  IF c = "n" THEN SolutionsAt(s, p + 1, map, signers)
  ELSE IF c = ":" THEN SolutionsAt(s, p + 1, map, signers)
  ELSE IF c \in {"pk(", "pkh("} THEN
    IF keyOk /\ At(s, p + 2) = ")"
    THEN [ok |-> TRUE, sols |-> bySig, next |-> p + 3] ELSE NoSolutions
  ELSE IF c = "and_v(v:pk(" THEN
    IF keyOk /\ At(s, p + 2) = ")," THEN
      LET r == SolutionsAt(s, p + 3, map, signers) IN
      IF r.ok /\ At(s, r.next) = ")"
      THEN [ok |-> TRUE,
            sols |-> IF key \in signers
                     THEN {Solution(x.nLockTime, x.nSequence, x.keys \cup {key},
                                    x.weight + 1) : x \in r.sols}
                     ELSE {},
            next |-> r.next + 1]
      ELSE NoSolutions
    ELSE NoSolutions
  ELSE IF c = "or_d(pk(" THEN
    IF keyOk /\ At(s, p + 2) = ")," THEN
      LET r == SolutionsAt(s, p + 3, map, signers) IN
      IF r.ok /\ At(s, r.next) = ")"
      THEN [ok |-> TRUE,
            sols |-> bySig \cup {[x EXCEPT !.weight = @ + 1] : x \in r.sols},
            next |-> r.next + 1]
      ELSE NoSolutions
    ELSE NoSolutions
  ELSE IF c \in {"older(", "after("} THEN
    LET e == DigitsEnd(s, p + 1)
        n == ParseInt(SubSeq(s, p + 1, e))
    IN IF e >= p + 1 /\ At(s, e + 1) = ")"
       THEN [ok |-> TRUE,
             sols |-> {IF c = "older(" THEN Solution(None, Some(n), {}, 0)
                       ELSE Solution(Some(n), None, {}, 0)},
             next |-> e + 2]
       ELSE NoSolutions
  ELSE NoSolutions

\* satisfyMiniscript({ expandedMiniscript, expansionMap, signatures, preimages,
\* timeConstraints }): the lightest satisfaction the signatures allow, among
\* those of the given time constraints when some are given.
satisfyMiniscript(expandedMiniscript, expansionMap, signatures, preimages, timeConstraints) ==
  LET signers == {signatures[i].pubkey : i \in 1..Len(signatures)}
      all == SolutionsAt(expandedMiniscript, 1, expansionMap, signers).sols
      sols == IF timeConstraints = None THEN all
              ELSE {x \in all : /\ x.nLockTime = Val(timeConstraints).nLockTime
                                /\ x.nSequence = Val(timeConstraints).nSequence}
      best == CHOOSE x \in sols : \A y \in sols : x.weight <= y.weight
  IN IF sols = {}
     THEN [scriptSatisfaction |-> None, nLockTime |-> None, nSequence |-> None]
     ELSE [scriptSatisfaction |-> Some(best), nLockTime |-> best.nLockTime,
           nSequence |-> best.nSequence]

\* ---------------------------------------------------------- Output's methods

\* Buffer.alloc(64, 0)
FakeSignature == "64 zero bytes"

\* lines 706-714: the time constraints of the satisfaction found
ConstraintsOf(satisfaction) ==
  [nLockTime |-> satisfaction.nLockTime, nSequence |-> satisfaction.nSequence]

\* lines 705-708 over the keys of the expansionMap in place of the signers
getTimeConstraintsOfAllKeys(out) ==
  IF IsSome(out.miniscript)
  THEN LET fakeSignatures ==
             [i \in 1..Len(Val(out.expansionMap)) |->
                [pubkey |-> Val(Val(out.expansionMap)[i].pubkey),
                 signature |-> FakeSignature]]
       IN Some(ConstraintsOf(
                 satisfyMiniscript(Val(out.expandedMiniscript), Val(out.expansionMap),
                                   fakeSignatures, out.preimages, None)))
  ELSE None

\* #getTimeConstraints(), lines 690-717
getTimeConstraints(out) ==
  IF IsSome(out.miniscript)
  THEN LET fakeSignatures ==
             [i \in 1..Len(out.signersPubKeys) |->
                [pubkey |-> out.signersPubKeys[i], signature |-> FakeSignature]]
       IN Some(ConstraintsOf(
                 satisfyMiniscript(Val(out.expandedMiniscript), Val(out.expansionMap),
                                   fakeSignatures, out.preimages, None)))
  ELSE None

\* the calls #getTimeConstraints makes of the satisfier, lines 697-716
getTimeConstraintsCalls(out) ==
  IF IsSome(out.miniscript) THEN <<"satisfyMiniscript">> ELSE <<>>

\* timeConstraints?.nSequence and timeConstraints?.nLockTime
NSequenceOf(timeConstraints) ==
  IF IsSome(timeConstraints) THEN Val(timeConstraints).nSequence ELSE None
NLockTimeOf(timeConstraints) ==
  IF IsSome(timeConstraints) THEN Val(timeConstraints).nLockTime ELSE None

getPayment(out) == Val(out.payment)
getScriptPubKey(out) == Val(out.payment).output
getSequence(out) == NSequenceOf(getTimeConstraints(out))
getLockTime(out) == NLockTimeOf(getTimeConstraints(out))
getWitnessScript(out) == out.witnessScript
getRedeemScript(out) == out.redeemScript
getNetwork(out) == out.network
isSegwit(out) == out.isSegwit
\* Output.expand(), lines 1050-1065
OutputExpand(out) ==
  [expandedExpression |-> out.expandedExpression, miniscript |-> out.miniscript,
   expandedMiniscript |-> out.expandedMiniscript, expansionMap |-> out.expansionMap]

\* lines 784-794: the satisfaction found, if any
SatisfactionOf(satisfaction) ==
  IF satisfaction.scriptSatisfaction = None
  THEN Err("could not produce a valid satisfaction")
  ELSE Ok(Val(satisfaction.scriptSatisfaction))

\* lines 775-790 without the timeConstraints of lines 783-789: the satisfier
\* is free to pick the satisfaction the signatures make lightest
getScriptSatisfactionUnconstrained(out, signatures) ==
  IF out.miniscript = None \/ out.expandedMiniscript = None \/ out.expansionMap = None
  THEN Err("cannot get satisfaction from not expanded miniscript")
  ELSE SatisfactionOf(
         satisfyMiniscript(Val(out.expandedMiniscript), Val(out.expansionMap),
                           signatures, out.preimages, None))

\* getScriptSatisfaction(signatures), lines 752-795
getScriptSatisfaction(out, signatures) ==
  IF out.miniscript = None \/ out.expandedMiniscript = None \/ out.expansionMap = None
  THEN Err("cannot get satisfaction from not expanded miniscript")
  ELSE SatisfactionOf(
         satisfyMiniscript(
           Val(out.expandedMiniscript), Val(out.expansionMap), signatures,
           out.preimages,
           Some([nLockTime |-> getLockTime(out), nSequence |-> getSequence(out)])))

\* ---------------------------------------------------------------------- PSBT

\* a 32-bit sequence number, as its two 16-bit halves
U32(hi, lo) == <<hi, lo>>
SequenceOf(n) == U32(n \div 65536, n % 65536)
SEQUENCE_FINAL == U32(65535, 65535)        \* 0xffffffff
SEQUENCE_LOCKTIME == U32(65535, 65534)     \* 0xfffffffe

EmptyPsbt == [inputs |-> <<>>, outputs |-> <<>>, locktime |-> 0]

\* updatePsbt of psbt.ts: the PSBT with the UTXO appended as an input, and
\* the position of that input, psbt.data.inputs.length - 1. utxo: what the
\* caller passed of the UTXO, "txHex", "txId+value" or "none".
updatePsbt(psbt, utxo, sequence, locktime, scriptPubKey, segwit, witnessScript, redeemScript) ==
  IF utxo = "none" THEN [ok |-> FALSE, error |-> "txHex or txId and value are needed",
                         psbt |-> psbt, index |-> 0]
  ELSE
  LET input == [utxo |-> IF segwit THEN "witnessUtxo"
                         ELSE IF utxo = "txHex" THEN "nonWitnessUtxo" ELSE "none",
                script |-> scriptPubKey,
                sequence |-> IF IsSome(sequence) THEN SequenceOf(Val(sequence))
                             ELSE IF IsSome(locktime) /\ Val(locktime) # 0
                               THEN SEQUENCE_LOCKTIME
                             ELSE SEQUENCE_FINAL,
                witnessScript |-> witnessScript, redeemScript |-> redeemScript,
                partialSig |-> <<>>, finalized |-> None]
      after == [psbt EXCEPT !.inputs = Append(@, input),
                            !.locktime = IF IsSome(locktime) THEN Val(locktime) ELSE @]
  IN [ok |-> TRUE, error |-> "", psbt |-> after, index |-> Len(after.inputs) - 1]

\* line 920 with the position read when the finalizer runs
LastInputIndex(finalizer, psbt) == Len(psbt.inputs) - 1

\* line 920: the finalizer passes on the index it was created with
FinalizerIndex(finalizer, psbt) == finalizer.index

\* lines 910-921: the finalizer made for the input updatePsbt appended
FinalizerOf(self, psbt, updated) ==
  IF ~updated.ok
  THEN [ok |-> FALSE, psbt |-> psbt, finalizer |-> None, error |-> updated.error]
  ELSE [ok |-> TRUE, psbt |-> updated.psbt, error |-> "",
        finalizer |-> Some([out |-> self, index |-> updated.index])]

\* lines 889-909 without the test of lines 890-895: an undefined isSegwit
\* goes on to updatePsbt, where it counts as false
updatePsbtAsInputUnchecked(out, self, psbt, utxo) ==
  FinalizerOf(self, psbt,
              updatePsbt(psbt, utxo, getSequence(out), getLockTime(out),
                         getScriptPubKey(out), isSegwit(out) = Some(TRUE),
                         getWitnessScript(out), getRedeemScript(out)))

\* updatePsbtAsInput({ psbt, txHex, txId, value, vout }), lines 873-922: the
\* PSBT after the call and the finalizer it returns.
updatePsbtAsInput(out, self, psbt, utxo) ==
  IF isSegwit(out) = None
  THEN [ok |-> FALSE, psbt |-> psbt, finalizer |-> None,
        error |-> "could not determine whether this is a segwit descriptor"]
  ELSE FinalizerOf(self, psbt,
                   updatePsbt(psbt, utxo, getSequence(out), getLockTime(out),
                              getScriptPubKey(out), Val(isSegwit(out)),
                              getWitnessScript(out), getRedeemScript(out)))

\* x || 0
OrZero(x) == IF IsSome(x) THEN Val(x) ELSE 0

\* the locktime #assertPsbtInput expects, line 953: this.getLockTime() || 0
ExpectedLockTime(out) == OrZero(getLockTime(out))

\* lines 954-956 without line 955: a locktime does not change the sequence
SequenceForIgnoringLockTime(sequence, locktime) ==
  IF IsSome(sequence) THEN SequenceOf(Val(sequence)) ELSE SEQUENCE_FINAL

\* lines 954-956: the sequence that goes with a sequence and a locktime
SequenceFor(sequence, locktime) ==
  IF IsSome(sequence) THEN SequenceOf(Val(sequence))
  ELSE IF locktime # 0 THEN SEQUENCE_LOCKTIME
  ELSE SEQUENCE_FINAL

\* the sequence #assertPsbtInput expects, lines 954-956
ExpectedSequence(out) == SequenceFor(getSequence(out), ExpectedLockTime(out))

\* lines 961-967 without the comparison of the locktimes
MismatchIgnoringLockTime(out, psbt, input) ==
  \/ input.script # getScriptPubKey(out)
  \/ ExpectedSequence(out) # input.sequence
  \/ getWitnessScript(out) # input.witnessScript
  \/ getRedeemScript(out) # input.redeemScript

\* lines 961-967: the input does not correspond to this descriptor
Mismatch(out, psbt, input) ==
  \/ input.script # getScriptPubKey(out)
  \/ ExpectedSequence(out) # input.sequence
  \/ ExpectedLockTime(out) # psbt.locktime
  \/ getWitnessScript(out) # input.witnessScript
  \/ getRedeemScript(out) # input.redeemScript

\* #assertPsbtInput({ psbt, index }), lines 935-972: "" or what it throws
assertPsbtInput(out, psbt, index) ==
  IF index < 0 \/ index >= Len(psbt.inputs) THEN "invalid input or txInput"
  ELSE IF psbt.inputs[index + 1].utxo = "none"
    THEN "input should have either witnessUtxo or nonWitnessUtxo"
  ELSE IF Mismatch(out, psbt, psbt.inputs[index + 1])
    THEN "cannot finalize psbt index since it does not correspond to this descriptor"
  ELSE ""

\* psbt.validateSignaturesOfInput(index, signatureValidator): it throws
\* where there is no input or no signature to validate
validateSignaturesOfInput(psbt, index) ==
  IF index < 0 \/ index >= Len(psbt.inputs) THEN Err("No input")
  ELSE IF psbt.inputs[index + 1].partialSig = <<>> THEN Err("No signatures to validate")
  ELSE Ok(\A i \in 1..Len(psbt.inputs[index + 1].partialSig) :
            psbt.inputs[index + 1].partialSig[i].valid)

\* psbt.finalizeInput(index, finalScripts?): the input gets its final
\* scripts, and loses what they were made of
finalizeInput(psbt, index, finalScripts) ==
  [psbt EXCEPT !.inputs[index + 1] =
     [@ EXCEPT !.finalized = Some(finalScripts), !.partialSig = <<>>,
               !.witnessScript = None, !.redeemScript = None]]

\* what finalizePsbtInput returns when it throws e: the PSBT as it was
FinalizeThrown(psbt, e) == [ok |-> FALSE, error |-> e, psbt |-> psbt]

\* lines 1037-1044 with the signatures taken off the input before the
\* satisfaction is computed
FinalizeSatisfiedAfterWrite(psbt, index, signatures, satisfaction) ==
  IF ~satisfaction.ok
  THEN FinalizeThrown([psbt EXCEPT !.inputs[index + 1].partialSig = <<>>],
                      satisfaction.error)
  ELSE [ok |-> TRUE, error |-> "",
        psbt |-> finalizeInput(psbt, index, "satisfaction")]

\* lines 1037-1044: the input finalized through the satisfaction found
FinalizeSatisfied(psbt, index, signatures, satisfaction) ==
  IF ~satisfaction.ok THEN FinalizeThrown(psbt, satisfaction.error)
  ELSE [ok |-> TRUE, error |-> "",
        psbt |-> finalizeInput(psbt, index,
                               "satisfaction")]

\* the key of the Outputs at work
KeyP == [key |-> "02P", path |-> <<>>]
\* a key that none of the Outputs holds
KeyQ == [key |-> "03Q", path |-> <<>>]
\* the signatures a signer puts on an input: of the key of the Outputs, valid
\* or not, and a valid one of the other key
PartialSigs ==
  { [pubkey |-> KeyP, valid |-> TRUE], [pubkey |-> KeyP, valid |-> FALSE],
    [pubkey |-> KeyQ, valid |-> TRUE] }

\* The script the default finalizer of psbt.finalizeInput(index) works on:
\* the witnessScript, else the redeemScript, else the script of the UTXO.
ScriptOfInput(input) ==
  IF IsSome(input.witnessScript) THEN Val(input.witnessScript)
  ELSE IF IsSome(input.redeemScript) THEN Val(input.redeemScript)
  ELSE input.script

\* psbt.finalizeInput(index) without finalScripts, before it writes: the
\* payment is rebuilt from the script and the first signature, whose key has
\* to be the one of the script. "" or what it throws.
DefaultFinalizerThrows(psbt, index) ==
  LET script == ScriptOfInput(psbt.inputs[index + 1])
      pubkey == psbt.inputs[index + 1].partialSig[1].pubkey
  IN IF script \in {p2pk(pubkey).output, p2pkh(pubkey).output, p2wpkh(pubkey).output}
       THEN ""
     ELSE IF \E k \in {KeyP, KeyQ} : script \in {p2pkh(k).output, p2wpkh(k).output}
       THEN "Hash mismatch"
     ELSE "Can not finalize input"

\* line 1037: psbt.finalizeInput(index)
FinalizeDefault(psbt, index, thrown) ==
  IF thrown # "" THEN FinalizeThrown(psbt, thrown)
  ELSE [ok |-> TRUE, error |-> "", psbt |-> finalizeInput(psbt, index, "default")]

\* lines 1034-1044: after #assertPsbtInput; asserted: what it threw, or ""
FinalizeAsserted(out, psbt, index, signatures, asserted) ==
  IF asserted # "" THEN FinalizeThrown(psbt, asserted)
  ELSE IF out.miniscript = None
    THEN FinalizeDefault(psbt, index, DefaultFinalizerThrows(psbt, index))
  ELSE FinalizeSatisfied(psbt, index, signatures,
                         getScriptSatisfaction(out, signatures))

\* lines 1017-1044 with #assertPsbtInput of line 1034 moved to the front
finalizePsbtInputAssertFirst(out, psbt, index, validate) ==
  LET valid == validateSignaturesOfInput(psbt, index)
      signatures == psbt.inputs[index + 1].partialSig
      asserted == assertPsbtInput(out, psbt, index)
  IN IF asserted # "" THEN FinalizeThrown(psbt, asserted)
     ELSE IF validate /\ ~valid.ok THEN FinalizeThrown(psbt, valid.error)
     ELSE IF validate /\ ~valid.val
       THEN FinalizeThrown(psbt, "invalid signatures on input")
     ELSE IF signatures = <<>>
       THEN FinalizeThrown(psbt, "cannot finalize without signatures")
     ELSE FinalizeAsserted(out, psbt, index, signatures, "")

\* finalizePsbtInput({ index, psbt, validate }), lines 1004-1045
finalizePsbtInput(out, psbt, index, validate) ==
  LET valid == validateSignaturesOfInput(psbt, index)
      signatures == psbt.inputs[index + 1].partialSig
  IN IF validate /\ ~valid.ok THEN FinalizeThrown(psbt, valid.error)
     ELSE IF validate /\ ~valid.val
       THEN FinalizeThrown(psbt, "invalid signatures on input")
     ELSE IF index < 0 \/ index >= Len(psbt.inputs) \/ signatures = <<>>
       THEN FinalizeThrown(psbt, "cannot finalize without signatures")
     ELSE FinalizeAsserted(out, psbt, index, signatures,
                           assertPsbtInput(out, psbt, index))

\* ------------------------------------------------------------------- inputs

MaxIndex == 12

KeyExpressions ==
  { <<"xpubA">>, <<"xpubA", "/", "0">>, <<"xpubA", "/", "*">>,
    <<"[o]", "xpubB", "/", "1", "'", "/", "*">>, <<"xpubB", "/", "*", "'">>,
    <<"xpubA", "/", "*", "/", "0">>, <<"02P">>, <<"04U">> }

\* and_v(v:pk(K),and_v(v:pk(K), ... pk(K))) over k keys: 35 bytes a key
Chain(key, k) ==
  LET link == <<"and_v(v:pk(">> \o key \o <<"),">>
  IN [i \in 1..((k - 1) * Len(link)) |-> link[((i - 1) % Len(link)) + 1]]
       \o <<"pk(">> \o key \o <<")">> \o [i \in 1..(k - 1) |-> ")"]
\* nn...n:pk(K) under w wrappers: w + 1 opcodes
Wrappers(key, w) == [i \in 1..w |-> "n"] \o <<":", "pk(">> \o key \o <<")">>

\* the sizes around the caps of the scripts
BytesPerKey == ByteLength(p2pk([key |-> "02P", path |-> <<>>]).output)
ChainLengths ==
  { MAX_SCRIPT_ELEMENT_SIZE \div BytesPerKey,
    (MAX_SCRIPT_ELEMENT_SIZE \div BytesPerKey) + 1,
    MAX_STANDARD_P2WSH_SCRIPT_SIZE \div BytesPerKey,
    (MAX_STANDARD_P2WSH_SCRIPT_SIZE \div BytesPerKey) + 1 }
WrapperCounts == { MAX_OPS_PER_SCRIPT - 1, MAX_OPS_PER_SCRIPT }

Miniscripts ==
  { <<"pk(", "xpubA", "/", "0", ")">>,
    <<"pk(", "xpubA", "/", "*", ")">>,
    <<"pkh(", "02P", ")">>,
    <<"pk(", "04U", ")">>,
    <<"wpkh(", "B", ")">>,
    <<"and_v(v:pk(", "xpubA", "/", "*", "),", "older(", "1", "4", "4", ")", ")">>,
    <<"and_v(v:pk(", "02P", "),", "after(", "1", "6", ")", ")">>,
    <<"and_v(v:pk(", "xpubA", "/", "*", "),", "pk(", "xpubB", "/", "*", ")", ")">>,
    <<"and_v(v:pk(", "02P", "),", "older(", "*", ")", ")">>,
    <<"or_d(pk(", "xpubA", "/", "0", "),",
      "and_v(v:pk(", "xpubB", "/", "0", "),", "older(", "9", ")", ")", ")">>,
    <<"n", ":", "pk(", "02P", ")">>,
    <<"B">>, <<>> }
\* the miniscripts whose scripts are around the caps
LongMiniscripts ==
  { Chain(<<"02P">>, k) : k \in ChainLengths }
  \cup { Wrappers(<<"02P">>, w) : w \in WrapperCounts }

MiniscriptBodies(ms) ==
  { <<"sh(", "wsh(">> \o m \o <<")", ")">> : m \in ms }
  \cup { <<open>> \o m \o <<")">> : open \in {"sh(", "wsh("}, m \in ms }

Bodies ==
  { <<"addr(", a, ")">> : a \in Addresses \cup {"badaddr"} }
  \cup { <<"addr(", ")">>, <<"addr(", "1P2PKH", "*", ")">>, <<"B">>,
         <<"pk(", "02P">>, <<"wpkh(", "02P", ")", ")">> }
  \cup { <<open>> \o k \o <<")">> : open \in {"pk(", "pkh(", "wpkh("}, k \in KeyExpressions }
  \cup { <<"sh(", "wpkh(">> \o k \o <<")", ")">> : k \in KeyExpressions }
  \cup MiniscriptBodies(Miniscripts)

\* body#checksum
WithChecksum(body) == body \o <<"#">> \o DescriptorChecksum(body)
\* character j of the checksum changed into c
Mutated(body, j, c) ==
  body \o <<"#">> \o [DescriptorChecksum(body) EXCEPT ![j] = c]

MutationBodies ==
  { <<"pkh(", "02P", ")">>, <<"wpkh(", "xpubA", "/", "*", ")">>,
    <<"wsh(", "pk(", "xpubA", "/", "0", ")", ")">> }

Descriptors ==
  Bodies
  \cup { WithChecksum(b) : b \in Bodies }
  \cup { Mutated(b, 1, IF DescriptorChecksum(b)[1] = "q" THEN "p" ELSE "q") : b \in Bodies }
  \cup { Mutated(b, j, c) : b \in MutationBodies, j \in 1..CHECKSUM_LENGTH,
                            c \in ChecksumChars \cup {"B", "*"} }
  \cup { b \o <<"#">> \o SubSeq(DescriptorChecksum(b), 1, CHECKSUM_LENGTH - 1) :
           b \in MutationBodies }
  \cup { WithChecksum(WithChecksum(b)) : b \in MutationBodies }
  \cup { <<>> }

Indices == { Undefined, NonInteger, Int_(-1), Int_(0), Int_(MaxIndex) }

Args(d, i, cr, net, allow) ==
  [descriptor |-> d, index |-> i, checksumRequired |-> cr, network |-> net,
   allowMiniscriptInP2SH |-> allow]

\* the calls made: every descriptor under every index and flag, the
\* addresses on another network, and the long miniscripts
Calls ==
  { Args(d, i, cr, "bitcoin", allow) :
      d \in Descriptors, i \in Indices, cr \in BOOLEAN, allow \in BOOLEAN }
  \cup { Args(<<"addr(", a, ")">>, Undefined, FALSE, "testnet", FALSE) : a \in Addresses }
  \cup { Args(d, Undefined, FALSE, "bitcoin", allow) :
           d \in MiniscriptBodies(LongMiniscripts), allow \in BOOLEAN }

\* -------------------------------------------------------------------- state

VARIABLES
  pc,          \* "start", then "expanded" or "constructed"; "psbt"
  call,        \* the arguments of the call
  result,      \* what expand returned
  built,       \* what the Output constructor built
  outputs,     \* the Output instances
  psbt,        \* the PSBT they are used on
  finalizers,  \* the finalizers updatePsbtAsInput returned, in order
  assigned,    \* for each finalizer, the position its input was appended at
  last         \* what the last call on an Output threw ("" when it returned)

vars == <<pc, call, result, built, outputs, psbt, finalizers, assigned, last>>
expandVars == <<pc, call, result, built>>
psbtVars == <<outputs, psbt, finalizers, assigned, last>>

Init ==
  /\ pc = "start"
  /\ call \in Calls
  /\ result = <<>>
  /\ built = <<>>
  /\ outputs = <<>>
  /\ psbt = EmptyPsbt
  /\ finalizers = <<>>
  /\ assigned = <<>>
  /\ last = ""

\* a call of expand
Expand ==
  /\ pc = "start"
  /\ result' = expand(call.descriptor, call.index, call.checksumRequired,
                      call.network, call.allowMiniscriptInP2SH)
  /\ pc' = "expanded"
  /\ UNCHANGED <<call, built>>
  /\ UNCHANGED psbtVars

\* the signersPubKeys argument: left out, the public key 02P, or the key
\* xpubB/0
SignersArguments ==
  { None, Some(<<[key |-> "02P", path |-> <<>>]>>),
    Some(<<[key |-> "xpubB", path |-> <<[n |-> 0, h |-> FALSE]>>]>>) }

\* a call of new Output, with no preimages
Construct ==
  /\ pc = "start"
  /\ \E signersPubKeys \in SignersArguments :
       built' = NewOutput(call.descriptor, call.index, call.checksumRequired,
                          call.allowMiniscriptInP2SH, call.network, <<>>,
                          signersPubKeys)
  /\ pc' = "constructed"
  /\ UNCHANGED <<call, result>>
  /\ UNCHANGED psbtVars

Next == Expand \/ Construct

Spec == Init /\ [][Next]_vars

\* ------------------------------------------------- Outputs at work on a PSBT

MaxInputs == 2
MaxPsbtOutputs == 1

\* The Output instances at work: the descriptor each was constructed from.
OutputDescriptors ==
  << <<"wpkh(", "02P", ")">>,
     <<"sh(", "wsh(", "and_v(v:pk(", "02P", "),", "older(", "9", ")", ")", ")", ")">>,
     <<"wsh(", "and_v(v:pk(", "02P", "),", "after(", "1", "6", ")", ")", ")">>,
     <<"addr(", "bc1qP2WPKH", ")">> >>

Constructed_(descriptor) ==
  NewOutput(descriptor, Undefined, FALSE, FALSE, "bitcoin", <<>>, None)

InitPsbt ==
  /\ pc = "psbt"
  /\ call = <<>>
  /\ result = <<>>
  /\ built = <<>>
  /\ outputs = [o \in DOMAIN OutputDescriptors |-> Constructed_(OutputDescriptors[o])]
  /\ psbt = EmptyPsbt
  /\ finalizers = <<>>
  /\ assigned = <<>>
  /\ last = ""

\* an instance that drops its scripts when a method is called on it
ForgetsScripts(out) == [out EXCEPT !.witnessScript = None, !.redeemScript = None]

\* The instance after a call of one of its methods: the private fields of
\* lines 538-550 are assigned in the constructor only.
AfterCall(out) == out

\* a call of a getter or of expand() on an Output: none throws
Get(o) ==
  /\ UNCHANGED expandVars
  /\ last' = ""
  /\ outputs' = [outputs EXCEPT ![o] = AfterCall(@)]
  /\ UNCHANGED <<psbt, finalizers, assigned>>

\* a call of getScriptSatisfaction, with a signature of the key 02P
GetScriptSatisfaction(o) ==
  /\ UNCHANGED expandVars
  /\ last' = getScriptSatisfaction(outputs[o], <<[pubkey |-> KeyP, valid |-> TRUE]>>).error
  /\ outputs' = [outputs EXCEPT ![o] = AfterCall(@)]
  /\ UNCHANGED <<psbt, finalizers, assigned>>

\* the PSBT and the finalizers after updatePsbtAsInput returned or threw
Updated(r) ==
  /\ psbt' = r.psbt
  /\ finalizers' = finalizers \o r.finalizer
  /\ assigned' = IF r.ok THEN Append(assigned, Len(psbt.inputs)) ELSE assigned
  /\ last' = r.error

\* a call of updatePsbtAsInput
UpdatePsbtAsInput(o, utxo) ==
  /\ UNCHANGED expandVars
  /\ Len(psbt.inputs) < MaxInputs
  /\ Updated(updatePsbtAsInput(outputs[o], o, psbt, utxo))
  /\ outputs' = [outputs EXCEPT ![o] = AfterCall(@)]

\* a call of updatePsbtAsOutput: psbt.addOutput({ script, value })
UpdatePsbtAsOutput(o, value) ==
  /\ UNCHANGED expandVars
  /\ Len(psbt.outputs) < MaxPsbtOutputs
  /\ psbt' = [psbt EXCEPT !.outputs =
                Append(@, [script |-> getScriptPubKey(outputs[o]), value |-> value])]
  /\ last' = ""
  /\ outputs' = [outputs EXCEPT ![o] = AfterCall(@)]
  /\ UNCHANGED <<finalizers, assigned>>

\* The caller adds the UTXO of an Output by hand, psbt.addInput, as updatePsbt
\* would but for one field: the UTXO is of another script, the sequence number
\* is the final one, the witnessScript or the redeemScript is left out.
AddInput(o, field) ==
  /\ UNCHANGED expandVars
  /\ Len(psbt.inputs) < MaxInputs
  /\ LET out == outputs[o]
         input ==
           [utxo |-> "witnessUtxo",
            script |-> IF field = "scriptPubKey" THEN p2wpkh([key |-> "03Q", path |-> <<>>]).output
                       ELSE getScriptPubKey(out),
            sequence |-> IF field = "sequence" THEN SEQUENCE_FINAL
                         ELSE ExpectedSequence(out),
            witnessScript |-> IF field = "witnessScript" THEN None
                              ELSE getWitnessScript(out),
            redeemScript |-> IF field = "redeemScript" THEN None
                             ELSE getRedeemScript(out),
            partialSig |-> <<>>,
            finalized |-> None]
     IN psbt' = [psbt EXCEPT !.inputs = Append(@, input)]
  /\ UNCHANGED <<outputs, finalizers, assigned, last>>

\* A signer signs input i: psbt.signInput; the signature is valid or not.
SignInput(i, pubkey, valid) ==
  /\ UNCHANGED expandVars
  /\ i \in 1..Len(psbt.inputs)
  /\ psbt.inputs[i].finalized = None
  /\ psbt.inputs[i].partialSig = <<>>
  /\ psbt' = [psbt EXCEPT !.inputs[i].partialSig =
                <<[pubkey |-> pubkey, valid |-> valid]>>]
  /\ UNCHANGED <<outputs, finalizers, assigned, last>>

\* the PSBT after finalizePsbtInput returned or threw
Finalized(r) ==
  /\ psbt' = r.psbt
  /\ last' = r.error

\* a call of finalizePsbtInput
FinalizePsbtInput(o, index, validate) ==
  /\ UNCHANGED expandVars
  /\ Finalized(finalizePsbtInput(outputs[o], psbt, index, validate))
  /\ outputs' = [outputs EXCEPT ![o] = AfterCall(@)]
  /\ UNCHANGED <<finalizers, assigned>>

\* a call of the k-th finalizer, on the PSBT
InvokeFinalizer(k, validate) ==
  /\ UNCHANGED expandVars
  /\ k \in 1..Len(finalizers)
  /\ Finalized(finalizePsbtInput(outputs[finalizers[k].out], psbt,
                                 FinalizerIndex(finalizers[k], psbt), validate))
  /\ outputs' = [outputs EXCEPT ![finalizers[k].out] = AfterCall(@)]
  /\ UNCHANGED <<finalizers, assigned>>

Utxos == {"txHex", "txId+value", "none"}
Fields == {"scriptPubKey", "sequence", "witnessScript", "redeemScript"}

NextPsbt ==
  \/ \E o \in DOMAIN outputs : Get(o)
  \/ \E o \in DOMAIN outputs : GetScriptSatisfaction(o)
  \/ \E o \in DOMAIN outputs, utxo \in Utxos : UpdatePsbtAsInput(o, utxo)
  \/ \E o \in {1, 4} : UpdatePsbtAsOutput(o, 1000)
  \/ \E field \in Fields : AddInput(2, field)
  \/ \E i \in 1..MaxInputs, sig \in PartialSigs : SignInput(i, sig.pubkey, sig.valid)
  \/ \E o \in DOMAIN outputs, index \in 0..MaxInputs, validate \in BOOLEAN :
       FinalizePsbtInput(o, index, validate)
  \/ \E k \in 1..MaxInputs, validate \in BOOLEAN : InvokeFinalizer(k, validate)

SpecPsbt == InitPsbt /\ [][NextPsbt]_vars

\* ------------------------------------------------------------------- claims

Expanded == pc = "expanded"
Returned == pc = "expanded" /\ result.ok
Constructed == pc = "constructed"

\* a string that ends with "#" and 8 checksum characters
EndsWithChecksum(d) ==
  /\ Len(d) >= 9
  /\ d[Len(d) - 8] = "#"
  /\ \A i \in (Len(d) - 7)..Len(d) : d[i] \in ChecksumChars
\* the string with the "#" and the 8 characters removed
Body(d) == IF EndsWithChecksum(d) THEN SubSeq(d, 1, Len(d) - 9) ELSE d
TrailingChecksum(d) == SubSeq(d, Len(d) - 7, Len(d))
Stars(d) == Cardinality({i \in 1..Len(d) : d[i] = "*"})
NonPushOps(script) ==
  Cardinality({i \in 1..Len(script) : script[i].isOp /\ script[i].op > 96})

\* C1: an Expansion that expand returns has no payment if and only if its
\* canonicalExpression still contains "*", whatever the shell and whether an
\* index was supplied or not.
C1_PaymentAbsentIffRanged ==
  Returned => (result.payment = None <=> Contains(result.canonicalExpression, "*"))

C1_Witness_ShapeOnly ==
  /\ Returned /\ ~call.index.def
  /\ result.payment = None /\ Contains(result.canonicalExpression, "*")
  /\ IsSome(result.miniscript)

\* C2: constructing an Output from a descriptor that contains "*" without an
\* index always fails, and every Output that is constructed has a payment.
C2_RangedNeedsIndex ==
  Constructed =>
    /\ (Contains(call.descriptor, "*") /\ ~call.index.def => ~built.ok)
    /\ (built.ok => IsSome(built.payment))

C2_Witness_MissingIndex ==
  /\ Constructed /\ Contains(call.descriptor, "*") /\ ~call.index.def
  /\ ~built.ok /\ built.error = "index was not provided for ranged descriptor"

\* C3: the canonicalExpression of a successful expand is the descriptor
\* without its checksum, with every "*" replaced by the decimal digits of the
\* index when one is given: it has no trailing checksum, and no "*" once an
\* index was substituted.
C3_CanonicalExpression ==
  Returned =>
    /\ result.canonicalExpression =
         IF call.index.def
         THEN ReplaceAll(Body(call.descriptor), "*", NumberToString(call.index.v))
         ELSE Body(call.descriptor)
    /\ (call.index.def => ~Contains(result.canonicalExpression, "*"))
    /\ ~EndsWithChecksum(result.canonicalExpression)

C3_Witness_Lockstep ==
  /\ Returned /\ call.index = Int_(MaxIndex)
  /\ Stars(call.descriptor) = 2 /\ EndsWithChecksum(call.descriptor)
  /\ IsSome(result.payment)

\* C4: expand called with an index succeeds only if the index is an integer
\* >= 0 and the descriptor without its checksum contains "*".
C4_IndexAccepted ==
  Returned /\ call.index.def =>
    /\ call.index.int /\ call.index.v >= 0
    /\ Contains(Body(call.descriptor), "*")

C4_Witness_IndexRefused ==
  /\ Expanded /\ ~result.ok /\ call.index = Int_(0)
  /\ result.error = "index passed for non-ranged descriptor"

\* the trailing checksum of d differs from the computed one in one character
OneCharacterMutation(d) ==
  /\ Len(d) >= 9 /\ d[Len(d) - 8] = "#"
  /\ Cardinality({j \in 1..8 :
        TrailingChecksum(d)[j] # DescriptorChecksum(SubSeq(d, 1, Len(d) - 9))[j]}) = 1

ChecksumErrors == {"has not checksum", "invalid descriptor checksum"}

\* C5: a trailing checksum that differs from the computed one makes expand
\* fail whatever checksumRequired is; a required checksum that is missing
\* makes it fail; a matching checksum is never what expand fails on, so that a
\* body that expands also expands with its checksum and checksumRequired
\* (a body that itself ends with a checksum is no bare body: only one checksum
\* is removed), while any one-character mutation of the checksum fails.
C5_ChecksumGate ==
  Expanded =>
    LET d == call.descriptor IN
    /\ (EndsWithChecksum(d) /\ TrailingChecksum(d) # DescriptorChecksum(Body(d))
          => ~result.ok)
    /\ (call.checksumRequired /\ ~EndsWithChecksum(d) => ~result.ok)
    /\ (EndsWithChecksum(d) /\ TrailingChecksum(d) = DescriptorChecksum(Body(d))
          => /\ result.error \notin ChecksumErrors
             /\ (~EndsWithChecksum(Body(d)) =>
                   result.ok = expand(Body(d), call.index, FALSE, call.network,
                                      call.allowMiniscriptInP2SH).ok))
    /\ (OneCharacterMutation(d) => ~result.ok)

C5_Witness_RequiredAndValid ==
  /\ Returned /\ call.checksumRequired /\ EndsWithChecksum(call.descriptor)
  /\ IsSome(result.payment)

\* C9: a payment on wsh(MS) or sh(wsh(MS)) has a witnessScript of at most
\* 3600 bytes and 201 non-push opcodes, a payment on sh(MS) a redeemScript of
\* at most 520 bytes and 201 non-push opcodes.
C9_ScriptLimits ==
  Returned /\ IsSome(result.payment) /\ IsSome(result.miniscript) =>
    IF IsSome(result.witnessScript)
    THEN /\ ByteLength(Val(result.witnessScript)) <= 3600
         /\ NonPushOps(Val(result.witnessScript)) <= 201
    ELSE /\ IsSome(result.redeemScript)
         /\ ByteLength(Val(result.redeemScript)) <= 520
         /\ NonPushOps(Val(result.redeemScript)) <= 201

C9_Witness_LargeWitnessScript ==
  /\ Returned /\ IsSome(result.payment) /\ IsSome(result.witnessScript)
  /\ ByteLength(Val(result.witnessScript)) > 3500

\* the canonical expression is of the form sh(MS) and neither sh(wpkh(KEY))
\* nor sh(wsh(MS'))
IsShMiniscript(c) ==
  /\ Len(c) >= 3 /\ c[1] = "sh(" /\ c[Len(c)] = ")"
  /\ ~(c[2] = "wsh(" /\ Len(c) >= 4 /\ c[Len(c) - 1] = ")")
  /\ ~(c[2] = "wpkh(" /\ Len(c) >= 5 /\ c[Len(c) - 1] = ")"
       /\ IsKeyExp(SubSeq(c, 3, Len(c) - 2)))

\* C10: sh(MS) is accepted only if allowMiniscriptInP2SH is true or MS begins
\* with a whitelisted head; otherwise expand fails before the miniscript is
\* expanded or compiled.
C10_MiniscriptInP2SH ==
  Expanded /\ IsShMiniscript(result.canonicalExpression) =>
    IF call.allowMiniscriptInP2SH \/ result.canonicalExpression[2] \in P2SHHeads
    THEN TRUE
    ELSE /\ ~result.ok
         /\ \A i \in 1..Len(result.calls) :
              result.calls[i] \notin {"expandMiniscript", "miniscript2Script"}

C10_Witness_Refused ==
  /\ Expanded /\ IsShMiniscript(result.canonicalExpression)
  /\ ~call.allowMiniscriptInP2SH
  /\ result.error = "Miniscript expressions can only be used in wsh"

\* the descriptor, without its checksum, begins with addr(
IsAddrDescriptor(d) == Body(d) # <<>> /\ Body(d)[1] = "addr("

\* the instance the constructor builds when signersPubKeys is left out
BuiltWithoutSigners ==
  NewOutput(call.descriptor, call.index, call.checksumRequired,
            call.allowMiniscriptInP2SH, call.network, <<>>, None)

\* C11: an Output constructed from an addr(...) descriptor has isSegwit
\* undefined and an expand() without expandedExpression, miniscript,
\* expandedMiniscript and expansionMap; the same call without signersPubKeys
\* constructs one whose signers are the one scriptPubKey; and expand returns
\* no payment for an addr(...) descriptor that contains "*".
C11_AddrOutput ==
  /\ Constructed /\ built.ok /\ IsAddrDescriptor(call.descriptor) =>
       /\ isSegwit(built) = None
       /\ OutputExpand(built) =
            [expandedExpression |-> None, miniscript |-> None,
             expandedMiniscript |-> None, expansionMap |-> None]
       /\ BuiltWithoutSigners.ok
       /\ BuiltWithoutSigners.signersPubKeys = <<getScriptPubKey(built)>>
  /\ Expanded /\ IsAddrDescriptor(call.descriptor) /\ Contains(call.descriptor, "*") =>
       ~result.ok

C11_Witness_AddrSigners ==
  /\ Constructed /\ built.ok /\ IsAddrDescriptor(call.descriptor)
  /\ BuiltWithoutSigners.signersPubKeys = <<getScriptPubKey(built)>>
  /\ Len(getScriptPubKey(built)) = 2
  /\ EndsWithChecksum(call.descriptor)

\* the canonical expression is of a shell that embeds a miniscript
EmbedsMiniscript(c) ==
  \/ IsShMiniscript(c)
  \/ Len(c) >= 2 /\ c[1] = "wsh(" /\ c[Len(c)] = ")"
  \/ Len(c) >= 4 /\ c[1] = "sh(" /\ c[2] = "wsh(" /\ c[Len(c)] = ")"
       /\ c[Len(c) - 1] = ")"

\* C12: an Expansion of a shell that embeds a miniscript has miniscript,
\* expandedMiniscript and expansionMap, with or without a payment; and in
\* every Expansion miniscript is present exactly when expandedMiniscript is.
C12_MiniscriptFieldsTogether ==
  Returned =>
    /\ (EmbedsMiniscript(result.canonicalExpression) =>
          /\ IsSome(result.miniscript)
          /\ IsSome(result.expandedMiniscript)
          /\ IsSome(result.expansionMap))
    /\ (IsSome(result.miniscript) <=> IsSome(result.expandedMiniscript))

C12_Witness_RangedShape ==
  /\ Returned /\ ~call.index.def /\ Contains(call.descriptor, "*")
  /\ result.canonicalExpression[1] = "sh(" /\ result.canonicalExpression[2] = "wsh("
  /\ IsSome(result.expandedMiniscript) /\ IsSome(result.expansionMap)
  /\ Len(Val(result.expansionMap)) = 2

\* d with every "*" textually replaced by i
TextuallyReplaced(d, i) == ReplaceAll(d, "*", NumberToString(i))

\* expand of the descriptor d' without index, under the flags of the call
ExpandReplaced(replaced, checksumRequired) ==
  expand(replaced, Undefined, checksumRequired, call.network, call.allowMiniscriptInP2SH)

\* the call passes an integer index i >= 0 for a descriptor that has a "*"
RangedWithIndex ==
  /\ Expanded
  /\ call.index.def /\ call.index.int /\ call.index.v >= 0
  /\ Contains(call.descriptor, "*")

\* the two results are the same but for isRanged, true in the first only
DifferOnlyInIsRanged(withIndex, replaced) ==
  /\ replaced.ok
  /\ withIndex.isRanged /\ ~replaced.isRanged
  /\ withIndex = [replaced EXCEPT !.isRanged = TRUE]

\* C14 as stated: for a ranged d and an integer i >= 0, expand(d, index = i)
\* and expand(d'), d' being d with every "*" replaced by i, return the same
\* payment, canonicalExpression, redeemScript and witnessScript, and differ
\* only in isRanged.
C14_Original_TextualReplacement ==
  RangedWithIndex /\ result.ok =>
    DifferOnlyInIsRanged(result,
      ExpandReplaced(TextuallyReplaced(call.descriptor, call.index.v),
                     call.checksumRequired))

\* C14, amended: the same with d' made of d without its trailing checksum,
\* and expanded without requiring a checksum.
C14_ReplacementInBody ==
  RangedWithIndex /\ result.ok =>
    DifferOnlyInIsRanged(result,
      ExpandReplaced(TextuallyReplaced(Body(call.descriptor), call.index.v), FALSE))

\* sh(wsh(..)) over two wildcards, with a checksum, at an index of two digits
C14_Witness_TwoWildcards ==
  /\ RangedWithIndex /\ result.ok
  /\ EndsWithChecksum(call.descriptor)
  /\ Stars(call.descriptor) = 2
  /\ call.index.v > 9
  /\ IsSome(result.payment) /\ IsSome(result.redeemScript) /\ IsSome(result.witnessScript)
  /\ ~Contains(result.canonicalExpression, "*")

KeyA0 == [key |-> "xpubA", path |-> <<[n |-> 0, h |-> FALSE]>>]
KeyB0 == [key |-> "xpubB", path |-> <<[n |-> 0, h |-> FALSE]>>]
SignatureOf(pubkey) == [pubkey |-> pubkey, valid |-> TRUE]
\* the signatures getScriptSatisfaction is called with
SignatureSets ==
  { <<>>, <<SignatureOf(KeyP)>>, <<SignatureOf(KeyA0)>>, <<SignatureOf(KeyB0)>>,
    <<SignatureOf(KeyA0), SignatureOf(KeyB0)>> }

\* the satisfactions the satisfier finds with these signatures when it is
\* given no time constraints
RealSolutions(out, signatures) ==
  SolutionsAt(Val(out.expandedMiniscript), 1, Val(out.expansionMap),
              {signatures[i].pubkey : i \in 1..Len(signatures)}).sols

\* the satisfaction needs the time constraints the getters return
SameConstraints(out, satisfaction) ==
  /\ satisfaction.nLockTime = getLockTime(out)
  /\ satisfaction.nSequence = getSequence(out)

\* what C15 says of one call of getScriptSatisfaction
SatisfactionAsConstrained(out, signatures, r) ==
  IF out.miniscript = None
  THEN r = Err("cannot get satisfaction from not expanded miniscript")
  ELSE IF r.ok
    THEN r.val \in RealSolutions(out, signatures) /\ SameConstraints(out, r.val)
  ELSE /\ r.error = "could not produce a valid satisfaction"
       /\ \A x \in RealSolutions(out, signatures) : ~SameConstraints(out, x)

\* C15: getScriptSatisfaction(signatures) returns a satisfaction only when it
\* is one the satisfier finds with these signatures under the nLockTime and
\* nSequence that getLockTime() and getSequence() compute from the fake
\* signatures of the signers; it throws for an Output without miniscript, and
\* throws when the satisfier finds no such satisfaction.
C15_SatisfactionKeepsConstraints ==
  Constructed /\ built.ok =>
    \A signatures \in SignatureSets :
      SatisfactionAsConstrained(built, signatures,
                                getScriptSatisfaction(built, signatures))

\* or_d(pk(A),and_v(v:pk(B),older(9))) with B as the only signer: with the
\* signatures of A and B the satisfaction is B's, under nSequence 9, though
\* A's alone is lighter; with the signature of A only there is none.
C15_Witness_LighterPathRefused ==
  /\ Constructed /\ built.ok /\ IsSome(built.miniscript)
  /\ built.signersPubKeys = <<KeyB0>>
  /\ getSequence(built) = Some(9)
  /\ getScriptSatisfaction(built, <<SignatureOf(KeyA0), SignatureOf(KeyB0)>>).ok
  /\ getScriptSatisfaction(built, <<SignatureOf(KeyA0), SignatureOf(KeyB0)>>).val.keys = {KeyB0}
  /\ RealSolutions(built, <<SignatureOf(KeyA0)>>) # {}
  /\ ~getScriptSatisfaction(built, <<SignatureOf(KeyA0)>>).ok

\* the canonical expression of the descriptor of a call that succeeded
CanonicalOfCall ==
  IF call.index.def THEN TextuallyReplaced(Body(call.descriptor), call.index.v)
  ELSE Body(call.descriptor)

\* the lightest of the satisfactions the signers of the Output allow
LightestOfSigners(out) ==
  LET sols == SolutionsAt(Val(out.expandedMiniscript), 1, Val(out.expansionMap),
                          {out.signersPubKeys[i] : i \in 1..Len(out.signersPubKeys)}).sols
  IN {x \in sols : \A y \in sols : x.weight <= y.weight}

\* C16: getSequence() and getLockTime() are undefined for an Output built
\* from addr, pk, pkh, wpkh or sh(wpkh), and the satisfier is not called; for
\* an Output built from a miniscript descriptor they are the nSequence and
\* nLockTime of the satisfaction the satisfier finds with a signature of each
\* signer pubkey, and undefined when it finds none.
C16_TimeConstraintsOfSigners ==
  Constructed /\ built.ok =>
    IF ~EmbedsMiniscript(CanonicalOfCall)
    THEN /\ getSequence(built) = None /\ getLockTime(built) = None
         /\ getTimeConstraintsCalls(built) = <<>>
    ELSE /\ getTimeConstraintsCalls(built) = <<"satisfyMiniscript">>
         /\ IF LightestOfSigners(built) = {}
            THEN getSequence(built) = None /\ getLockTime(built) = None
            ELSE \E x \in LightestOfSigners(built) :
                   getSequence(built) = x.nSequence /\ getLockTime(built) = x.nLockTime

\* and_v(v:pk(02P),after(16)) with 02P given as signer: the locktime is 16
C16_Witness_LockTimeOfSigner ==
  /\ Constructed /\ built.ok /\ IsSome(built.miniscript)
  /\ built.signersPubKeys = <<KeyP>>
  /\ getLockTime(built) = Some(16)
  /\ getSequence(built) = None
  /\ Len(Val(built.expansionMap)) = 1

\* c is open, something, and n closing parentheses
HasForm(c, open, n) ==
  /\ Len(c) >= Len(open) + n
  /\ SubSeq(c, 1, Len(open)) = open
  /\ \A j \in 0..(n - 1) : c[Len(c) - j] = ")"
\* c is open, a key expression, and n closing parentheses
HasKeyForm(c, open, n) ==
  HasForm(c, open, n) /\ IsKeyExp(SubSeq(c, Len(open) + 1, Len(c) - n))

\* the first shell, in the order of the branches, whose form c has
FirstMatching(c) ==
  IF HasForm(c, <<"addr(">>, 1) THEN "addr"
  ELSE IF HasKeyForm(c, <<"pk(">>, 1) THEN "pk"
  ELSE IF HasKeyForm(c, <<"pkh(">>, 1) THEN "pkh"
  ELSE IF HasKeyForm(c, <<"sh(", "wpkh(">>, 2) THEN "sh(wpkh"
  ELSE IF HasKeyForm(c, <<"wpkh(">>, 1) THEN "wpkh"
  ELSE IF HasForm(c, <<"sh(", "wsh(">>, 2) THEN "sh(wsh"
  ELSE IF HasForm(c, <<"sh(">>, 1) THEN "sh"
  ELSE IF HasForm(c, <<"wsh(">>, 1) THEN "wsh"
  ELSE ""

\* the branch an Expansion comes from, read off its fields
HandledBy(r) ==
  IF r.expandedExpression = None THEN "addr"
  ELSE IF r.miniscript = None
    THEN CASE Val(r.expandedExpression) = <<"pk(", "@0", ")">> -> "pk"
           [] Val(r.expandedExpression) = <<"pkh(", "@0", ")">> -> "pkh"
           [] Val(r.expandedExpression) = <<"sh(", "wpkh(", "@0", ")", ")">> -> "sh(wpkh"
           [] Val(r.expandedExpression) = <<"wpkh(", "@0", ")">> -> "wpkh"
           [] OTHER -> "none"
  ELSE IF HasForm(Val(r.expandedExpression), <<"sh(", "wsh(">>, 2) /\ r.isSegwit = Some(TRUE)
    THEN "sh(wsh"
  ELSE IF HasForm(Val(r.expandedExpression), <<"sh(">>, 1) /\ r.isSegwit = Some(FALSE)
    THEN "sh"
  ELSE IF HasForm(Val(r.expandedExpression), <<"wsh(">>, 1) /\ r.isSegwit = Some(TRUE)
    THEN "wsh"
  ELSE "none"

\* what C19 says of the result r of expand on the canonical expression c
DispatchedInOrder(c, r) ==
  /\ (FirstMatching(c) = "" => ~r.ok /\ r.error = "Could not parse descriptor")
  /\ (r.ok => HandledBy(r) = FirstMatching(c))
  /\ (FirstMatching(c) = "sh(wpkh" =>
        /\ ~Contains(r.calls, "expandMiniscript")
        /\ r.error # "Miniscript expressions can only be used in wsh"
        /\ (r.ok => /\ r.isSegwit = Some(TRUE)
                    /\ r.expandedExpression = Some(<<"sh(", "wpkh(", "@0", ")", ")">>)
                    /\ r.miniscript = None /\ r.expandedMiniscript = None
                    /\ r.witnessScript = None))

\* C19: a descriptor of the form sh(wpkh(KEY)) is handled by the sh(wpkh)
\* branch and never by the sh(miniscript) branch, whatever
\* allowMiniscriptInP2SH is: isSegwit true, expandedExpression sh(wpkh(@0)), no
\* miniscript, expandedMiniscript or witnessScript; every accepted descriptor
\* is handled by the first branch, in the order addr, pk, pkh, sh(wpkh), wpkh,
\* sh(wsh(MS)), sh(MS), wsh(MS), whose form it has; and an expression of none
\* of these forms fails as unparseable.
C19_DispatchOrder ==
  Expanded /\ ~IndexInvalid(call.index)
           /\ evaluate(call.descriptor, call.checksumRequired, call.index).ok =>
    DispatchedInOrder(evaluate(call.descriptor, call.checksumRequired, call.index).val,
                      result)

\* sh(wpkh(KEY)) with miniscript allowed in P2SH, over a ranged key at an
\* index: handled by the sh(wpkh) branch
C19_Witness_ShWpkh ==
  /\ Returned
  /\ call.allowMiniscriptInP2SH
  /\ call.index.def /\ Contains(call.descriptor, "*")
  /\ FirstMatching(result.canonicalExpression) = "sh(wpkh"
  /\ HandledBy(result) = "sh(wpkh"
  /\ IsSome(result.redeemScript)

\* the script the miniscript of an Expansion compiles to
CompiledOf(r) ==
  miniscript2Script(Val(r.expandedMiniscript), Val(r.expansionMap)).val

\* the auxiliary scripts of a shell: <<redeemScript, witnessScript>>
AuxiliaryScripts(shell, r) ==
  CASE shell = "wsh" -> <<None, Some(CompiledOf(r))>>
    [] shell = "sh" -> <<Some(CompiledOf(r)), None>>
    [] shell = "sh(wsh" -> <<Some(p2wsh(CompiledOf(r)).output), Some(CompiledOf(r))>>
    [] shell = "sh(wpkh" ->
         <<Some(p2wpkh(Val(Val(r.expansionMap)[1].pubkey)).output), None>>
    [] OTHER -> <<None, None>>

\* C20: an Expansion with a payment has the auxiliary scripts of its shell:
\* wsh(MS) the compiled script as witnessScript and no redeemScript; sh(MS) the
\* compiled script as redeemScript and no witnessScript; sh(wsh(MS)) the
\* compiled script as witnessScript and the p2wsh program of it as
\* redeemScript; sh(wpkh(K)) the p2wpkh program as redeemScript and no
\* witnessScript; addr, pk, pkh and wpkh neither. An Expansion whose canonical
\* expression still contains "*" has neither.
C20_AuxiliaryScriptsByShell ==
  Returned =>
    IF Contains(result.canonicalExpression, "*")
    THEN result.redeemScript = None /\ result.witnessScript = None
    ELSE /\ IsSome(result.payment)
         /\ <<result.redeemScript, result.witnessScript>> =
              AuxiliaryScripts(FirstMatching(result.canonicalExpression), result)

\* sh(wsh(MS)) returned with both scripts, the redeemScript being the p2wsh
\* program of the witnessScript, which holds two keys
C20_Witness_BothScripts ==
  /\ Returned
  /\ FirstMatching(result.canonicalExpression) = "sh(wsh"
  /\ IsSome(result.witnessScript) /\ IsSome(result.redeemScript)
  /\ Val(result.redeemScript) = p2wsh(Val(result.witnessScript)).output
  /\ Val(result.payment) = p2sh(Val(result.redeemScript))
  /\ Len(Val(result.expansionMap)) = 2
  /\ ~call.index.def

\* the descriptor ends with "#" and 8 checksum characters that are not the
\* checksum of what precedes them
CarriesInvalidChecksum(d) ==
  EndsWithChecksum(d) /\ TrailingChecksum(d) # DescriptorChecksum(Body(d))
\* the checksum is required and the descriptor ends with none
MissingRequiredChecksum(c) == c.checksumRequired /\ ~EndsWithChecksum(c.descriptor)
\* an index is given and it is negative or no integer
NotANaturalIndex(index) == index.def /\ ~(index.int /\ index.v >= 0)

\* C21 as stated: checksum detection and verification come before the
\* validation of the index, so that a call with an invalid checksum, or with a
\* required checksum missing, and a negative or non-integer index fails with
\* the checksum error.
C21_Original_ChecksumBeforeIndex ==
  Expanded /\ call.descriptor # <<>> /\ NotANaturalIndex(call.index) =>
    /\ (CarriesInvalidChecksum(call.descriptor) =>
          ~result.ok /\ result.error = "invalid descriptor checksum")
    /\ (MissingRequiredChecksum(call) =>
          ~result.ok /\ result.error = "has not checksum")

\* C21: expand tests that a given index is an integer >= 0 before it detects
\* and verifies the checksum: a call on a non-empty descriptor with a negative
\* or non-integer index fails with the invalid-index error, also when the
\* checksum is invalid or a required checksum is missing. With any other
\* index the checksum comes first: a missing required checksum and an invalid
\* checksum fail with their checksum error, also when the index is given for a
\* descriptor without "*".
C21_IndexBeforeChecksum ==
  Expanded /\ call.descriptor # <<>> =>
    /\ (NotANaturalIndex(call.index) =>
          ~result.ok /\ result.error = "invalid index")
    /\ (~NotANaturalIndex(call.index) /\ MissingRequiredChecksum(call) =>
          ~result.ok /\ result.error = "has not checksum")
    /\ (~NotANaturalIndex(call.index) /\ ~MissingRequiredChecksum(call)
          /\ CarriesInvalidChecksum(call.descriptor) =>
          ~result.ok /\ result.error = "invalid descriptor checksum")

C21_Witness_InvalidIndexWins ==
  /\ Expanded /\ call.index = Int_(-1)
  /\ CarriesInvalidChecksum(call.descriptor)
  /\ ~result.ok /\ result.error = "invalid index"

\* ------------------------------------------------------ claims on the PSBT

MismatchError ==
  "cannot finalize psbt index since it does not correspond to this descriptor"

IsFinalized(input) == input.finalized # None

\* C6: in every state, the index the k-th finalizer passes to
\* finalizePsbtInput is the position its own input was appended at, whatever
\* was appended since and whichever finalizers ran; and no two finalizers
\* pass the same position.
C6_FinalizerTargetsItsInput ==
  /\ Len(assigned) = Len(finalizers)
  /\ \A k \in DOMAIN finalizers :
       /\ FinalizerIndex(finalizers[k], psbt) = assigned[k]
       /\ assigned[k] < Len(psbt.inputs)
       /\ psbt.inputs[assigned[k] + 1].script = getScriptPubKey(outputs[finalizers[k].out])
  /\ \A j, k \in DOMAIN finalizers :
       j # k => FinalizerIndex(finalizers[j], psbt) # FinalizerIndex(finalizers[k], psbt)

\* Two finalizers, an input appended after the first one's that is not the
\* last, and the input of the second finalized before that of the first.
C6_Witness_LaterFinalizedFirst ==
  /\ Len(finalizers) = 2
  /\ assigned[2] = Len(psbt.inputs) - 1
  /\ IsFinalized(psbt.inputs[assigned[2] + 1])
  /\ ~IsFinalized(psbt.inputs[assigned[1] + 1])

\* the five comparisons of the input-shape assertion, each spelled out
ShapeAsExpected(out, index) ==
  LET input == psbt.inputs[index + 1]
      locktime == IF getLockTime(out) = None THEN 0 ELSE Val(getLockTime(out))
      sequence == IF getSequence(out) # None THEN SequenceOf(Val(getSequence(out)))
                  ELSE IF locktime # 0 THEN U32(65535, 65534)
                  ELSE U32(65535, 65535)
  IN <<input.script = Val(out.payment).output,
       input.sequence = sequence,
       psbt.locktime = locktime,
       input.witnessScript = out.witnessScript,
       input.redeemScript = out.redeemScript>>

ShapeHolds(out, index) ==
  \A f \in 1..5 : ShapeAsExpected(out, index)[f]

\* a signed input that differs from what the Output expects in field f only
SingleMismatch(o, i, f) ==
  /\ psbt.inputs[i].partialSig # <<>>
  /\ \A g \in 1..5 : ShapeAsExpected(outputs[o], i - 1)[g] <=> (g # f)

\* C7: on every PSBT the calls lead to, a call of finalizePsbtInput on an
\* input whose scriptPubKey, sequence, witnessScript or redeemScript, or
\* whose PSBT's locktime, differs from what the Output expects throws and
\* leaves the input as it was: it finalizes only where all five are equal.
C7_FinalizedOnlyIfShapeHolds ==
  \A o \in DOMAIN outputs, i \in DOMAIN psbt.inputs, validate \in BOOLEAN :
    LET r == finalizePsbtInput(outputs[o], psbt, i - 1, validate) IN
    \/ ShapeHolds(outputs[o], i - 1)
    \/ (~r.ok /\ r.psbt = psbt)

\* An input has been finalized; and the last call threw the mismatch on a
\* PSBT where a signed input differs from an Output's expectation in one
\* field only, for each of the five fields in some pair.
C7_Witness_SingleMismatch ==
  /\ \E i \in DOMAIN psbt.inputs : IsFinalized(psbt.inputs[i])
  /\ last = MismatchError
  /\ \E o \in DOMAIN outputs, i \in DOMAIN psbt.inputs, f \in 1..5 :
       SingleMismatch(o, i, f)

\* what the getters and expand() of an Output return
Getters(out) ==
  [getPayment |-> getPayment(out), getScriptPubKey |-> getScriptPubKey(out),
   getWitnessScript |-> getWitnessScript(out), getRedeemScript |-> getRedeemScript(out),
   getNetwork |-> getNetwork(out), isSegwit |-> isSegwit(out),
   getSequence |-> getSequence(out), getLockTime |-> getLockTime(out),
   expand |-> OutputExpand(out)]

SegwitUndetermined ==
  "could not determine whether this is a segwit descriptor"

\* C13: on an Output whose isSegwit() is undefined (the addr(...) Output),
\* updatePsbtAsInput throws the segwit error whatever it is passed of the
\* UTXO (txHex, txId and value, or nothing), on every PSBT; it adds no input
\* and returns no finalizer.
C13_AddrCannotBeInput ==
  pc = "psbt" =>
    \A o \in DOMAIN outputs :
      isSegwit(outputs[o]) = None =>
        \A utxo \in Utxos :
          updatePsbtAsInput(outputs[o], o, psbt, utxo) =
            [ok |-> FALSE, psbt |-> psbt, finalizer |-> None,
             error |-> SegwitUndetermined]

\* the call was made on the addr() Output, on a PSBT that has an input
C13_Witness_Thrown ==
  /\ pc = "psbt"
  /\ last = SegwitUndetermined
  /\ isSegwit(outputs[4]) = None
  /\ Len(psbt.inputs) = 1
  /\ Len(finalizers) = 1

\* the Output's locktime, an undefined one counting as 0
ClaimedLockTime(out) == IF getLockTime(out) = None THEN 0 ELSE Val(getLockTime(out))

\* getSequence() when it is defined, otherwise 0xfffffffe when the locktime
\* is not 0, otherwise 0xffffffff
ClaimedSequence(out) ==
  IF getSequence(out) # None THEN SequenceOf(Val(getSequence(out)))
  ELSE IF ClaimedLockTime(out) # 0 THEN U32(65535, 65534)
  ELSE U32(65535, 65535)

\* C17: the sequence the input assertion expects is getSequence() when it is
\* defined, otherwise 0xfffffffe when getLockTime() is not 0 (an undefined
\* locktime counts as 0), otherwise 0xffffffff; the assertion passes only on
\* an input of that sequence in a PSBT of the Output's locktime, and throws
\* the mismatch on an input with a UTXO where either differs.
C17_ExpectedSequence ==
  pc = "psbt" =>
    \A o \in DOMAIN outputs, i \in DOMAIN psbt.inputs :
      LET asserted == assertPsbtInput(outputs[o], psbt, i - 1)
          same == /\ psbt.inputs[i].sequence = ClaimedSequence(outputs[o])
                  /\ psbt.locktime = ClaimedLockTime(outputs[o])
      IN /\ ExpectedSequence(outputs[o]) = ClaimedSequence(outputs[o])
         /\ asserted = "" => same
         /\ psbt.inputs[i].utxo # "none" /\ ~same => asserted = MismatchError

\* An input of the after(16) Output, of sequence 0xfffffffe in a PSBT of
\* locktime 16, passes its assertion; an input of the wpkh Output, of sequence
\* 0xffffffff as it expects, fails it in that PSBT over the locktime alone.
C17_Witness_ThreeSequences ==
  /\ pc = "psbt"
  /\ psbt.locktime = 16
  /\ ClaimedSequence(outputs[2]) = SequenceOf(9)
  /\ \E i, j \in DOMAIN psbt.inputs :
       /\ psbt.inputs[i].sequence = U32(65535, 65534)
       /\ assertPsbtInput(outputs[3], psbt, i - 1) = ""
       /\ psbt.inputs[j].script = getScriptPubKey(outputs[1])
       /\ psbt.inputs[j].sequence = U32(65535, 65535)
       /\ psbt.inputs[j].utxo # "none"
       /\ assertPsbtInput(outputs[1], psbt, j - 1) = MismatchError

InvalidSignatures == "invalid signatures on input"
WithoutSignatures == "cannot finalize without signatures"

AllValid(signatures) == \A k \in 1..Len(signatures) : signatures[k].valid

\* step (4): the default finalizer without miniscript, which throws on a
\* signature of a key that is not the one of the script, otherwise the
\* satisfaction of the signatures, or what getting it throws
FinalizedAsClaimed(out, index, signatures, r) ==
  IF out.miniscript = None
  THEN IF getScriptPubKey(out) \in {p2pk(signatures[1].pubkey).output, p2pkh(signatures[1].pubkey).output, p2wpkh(signatures[1].pubkey).output}
       THEN r.ok /\ r.psbt.inputs[index + 1].finalized = Some("default")
       ELSE ~r.ok /\ r.error \in {"Hash mismatch", "Can not finalize input"}
  ELSE IF getScriptSatisfaction(out, signatures).ok
    THEN r.ok /\ r.psbt.inputs[index + 1].finalized = Some("satisfaction")
  ELSE ~r.ok /\ r.error = getScriptSatisfaction(out, signatures).error

\* steps (1), (3) and (4) on a signed input, in that order; and no
\* finalization of an input without partialSig
SignedInOrder(out, index, validate, r) ==
  LET signatures == psbt.inputs[index + 1].partialSig
      asserted == assertPsbtInput(out, psbt, index)
  IN /\ (~r.ok => r.psbt = psbt)
     /\ (signatures = <<>> => ~r.ok)
     /\ (signatures # <<>> /\ validate /\ ~AllValid(signatures) =>
           ~r.ok /\ r.error = InvalidSignatures)
     /\ (signatures # <<>> /\ (validate => AllValid(signatures)) /\ asserted # "" =>
           ~r.ok /\ r.error = asserted)
     /\ (signatures # <<>> /\ (validate => AllValid(signatures)) /\ asserted = "" =>
           FinalizedAsClaimed(out, index, signatures, r))

\* the error on an input without partialSig is among those named
UnsignedThrows(index, r, named) ==
  psbt.inputs[index + 1].partialSig = <<>> => r.error \in named

\* C18 as stated: the checks run in the order (1) signature validation when
\* validate is true, failing with the invalid-signatures error, (2) presence
\* of partialSig, failing with the cannot-finalize-without-signatures error,
\* (3) the input-shape assertion, (4) the finalization; an input without
\* partialSig fails with the error of (1) or (2).
C18_Original_NamedErrors ==
  pc = "psbt" =>
    \A o \in DOMAIN outputs, i \in DOMAIN psbt.inputs, validate \in BOOLEAN :
      LET r == finalizePsbtInput(outputs[o], psbt, i - 1, validate) IN
      /\ SignedInOrder(outputs[o], i - 1, validate, r)
      /\ UnsignedThrows(i - 1, r, IF validate THEN {InvalidSignatures, WithoutSignatures}
                                  ELSE {WithoutSignatures})

\* C18, amended: the same order, where on an input without partialSig the
\* signature validation of step (1) throws its own error, "No signatures to
\* validate", and the error of step (2) is what such an input gets when
\* validate is false.
C18_ChecksInOrder ==
  pc = "psbt" =>
    \A o \in DOMAIN outputs, i \in DOMAIN psbt.inputs, validate \in BOOLEAN :
      LET r == finalizePsbtInput(outputs[o], psbt, i - 1, validate) IN
      /\ SignedInOrder(outputs[o], i - 1, validate, r)
      /\ UnsignedThrows(i - 1, r, IF validate THEN {"No signatures to validate"}
                                  ELSE {WithoutSignatures})

\* A call with validate on an input without partialSig threw, in a PSBT
\* with an input finalized through a satisfaction; and the other input bears
\* an invalid signature and does not have the shape some Output expects.
C18_Witness_ValidationFirst ==
  /\ pc = "psbt"
  /\ last = "No signatures to validate"
  /\ \E i, j \in DOMAIN psbt.inputs :
       /\ psbt.inputs[i].finalized = Some("satisfaction")
       /\ psbt.inputs[j].partialSig # <<>>
       /\ ~AllValid(psbt.inputs[j].partialSig)
       /\ \E o \in DOMAIN outputs : assertPsbtInput(outputs[o], psbt, j - 1) = MismatchError

\* what the satisfier's failure makes getScriptSatisfaction throw
NoSatisfaction == "could not produce a valid satisfaction"

\* the step is a call of finalizePsbtInput, direct or through a finalizer,
\* that threw
FinalizeFailed ==
  /\ last' # ""
  /\ \/ \E o \in DOMAIN outputs, index \in 0..MaxInputs, validate \in BOOLEAN :
          FinalizePsbtInput(o, index, validate)
     \/ \E k \in 1..MaxInputs, validate \in BOOLEAN : InvokeFinalizer(k, validate)

\* the step is a call of updatePsbtAsInput that threw the segwit error
UpdateFailedOnSegwit ==
  /\ last' = SegwitUndetermined
  /\ \E o \in DOMAIN outputs, utxo \in Utxos : UpdatePsbtAsInput(o, utxo)

\* C22: a failure leaves the PSBT untouched. A call of finalizePsbtInput that
\* throws, whether on invalid signatures, on a missing partialSig, on an
\* input-shape mismatch, on an unavailable satisfaction or on anything else,
\* leaves every input, finalized or not, and the rest of the PSBT as they
\* were; a call of updatePsbtAsInput that throws because segwit is
\* undetermined appends no input: the inputs, and their number, are unchanged.
C22_FailureLeavesPsbtUntouched ==
  [][/\ (FinalizeFailed => psbt' = psbt)
     /\ (UpdateFailedOnSegwit =>
           /\ Len(psbt'.inputs) = Len(psbt.inputs)
           /\ psbt' = psbt /\ finalizers' = finalizers)]_vars

\* The last call threw for want of a satisfaction: the PSBT holds an input
\* finalized earlier and an input that is not finalized and still bears the
\* signature, of a key that is not in the miniscript, the call found on it.
C22_Witness_NoSatisfactionNothingWritten ==
  /\ pc = "psbt"
  /\ last = NoSatisfaction
  /\ \E i, j \in DOMAIN psbt.inputs :
       /\ IsFinalized(psbt.inputs[i])
       /\ ~IsFinalized(psbt.inputs[j])
       /\ psbt.inputs[j].partialSig = <<[pubkey |-> KeyQ, valid |-> TRUE]>>
       /\ IsSome(psbt.inputs[j].witnessScript)

====
